---- MODULE Spec2Model ----
(***************************************************************************)
(* The failover daemon of DevHatRo/ipfailover as a state machine.          *)
(*                                                                         *)
(* One process (Application.Run) executes checkAndUpdateIP on every tick.  *)
(* The model follows the handler statement by statement, one action per    *)
(* call that can fail or that the environment can interleave with:         *)
(*   GetCurrentIP -> SetLastCheckInfo -> determineTargetIP                 *)
(*     (checkIPReachability, then Reset- or Get/SetPrimaryFailureCount)    *)
(*   -> GetLastAppliedIP -> updateDNSRecords (one UpdateRecord per         *)
(*   configured record) -> SetLastAppliedIP.                               *)
(* The environment decides the outcome of every call that can fail, may    *)
(* cancel the run context, may damage the state file, and completes the    *)
(* file-writing goroutine that saveState leaves behind when its select     *)
(* returns on ctx.Done().                                                  *)
(***************************************************************************)
EXTENDS Integers, Sequences, FiniteSets, TLC

\* ------------------------------------------------------------------ bounds
\* Number of executions of checkAndUpdateIP in one behaviour; time.Now() is
\* the index of the running cycle.
MaxCycles == 4
\* Largest failover_retries value the configurations are drawn from.
MaxRetries == 3
\* Number of failures the environment injects in one behaviour: a call that
\* returns an error, a cancellation, a damaged state file.
MaxFaults == 2
\* Store operations invoked in a run of the store on its own.
MaxCalls == 2
\* Calls made to a provider in a run of the provider on its own.
MaxDNSCalls == 2
\* Errors in the Unwrap chain of an error handed to IsRetryableError.
MaxDepth == 3

\* ------------------------------------------------------------ configuration
PrimaryAddr == "10.0.0.1"
SecondaryAddr == "10.0.0.2"
DetectedAddr == "203.0.113.10"

\* The dns: list of the configuration, two records at two providers.
DNSRecords ==
  << [Name |-> "a.example.com", Type |-> "A", Provider |-> "cloudflare",
      TTL |-> 300, HasProviderConfig |-> TRUE],
     [Name |-> "b.example.com", Type |-> "A", Provider |-> "cpanel",
      TTL |-> 300, HasProviderConfig |-> TRUE] >>

SupportedProviders == {"cloudflare", "cpanel", "route53", "namecheap"}

ValidStrategies == {"fail_fast", "continue_with_warning", "immediate_failover"}

\* The configurations the daemon may be started with: the three fields the
\* failover decision reads vary, the others hold valid values.
Configs ==
  [ PollInterval : {30},
    CheckEndpoints : {2},
    PrimaryIP : {"", PrimaryAddr},
    SecondaryIP : {"", SecondaryAddr},
    FailoverRetries : (-1)..MaxRetries,
    StateFailureStrategy : {"continue_with_warning"},
    StateFile : {"state.json"},
    DNS : {DNSRecords} ]

\* DNSConfig.Validate
DNSConfigValidate(d) ==
  /\ d.Name # ""
  /\ d.Type # ""
  /\ d.Provider # ""
  /\ d.TTL > 0
  /\ d.Provider \in SupportedProviders
  /\ d.HasProviderConfig

\* A Validate that rejects a zero retry threshold.
ValidateRejectZeroRetries(c) ==
  /\ c.PollInterval > 0
  /\ c.CheckEndpoints # 0
  /\ c.PrimaryIP # ""
  /\ c.SecondaryIP # ""
  /\ ~(c.FailoverRetries <= 0)
  /\ c.StateFailureStrategy \in ValidStrategies
  /\ c.StateFile # ""
  /\ Len(c.DNS) # 0
  /\ \A i \in 1..Len(c.DNS) : DNSConfigValidate(c.DNS[i])

\* A Validate that does not require the two addresses.
ValidateNoAddressCheck(c) ==
  /\ c.PollInterval > 0
  /\ c.CheckEndpoints # 0
  /\ ~(c.FailoverRetries < 0)
  /\ c.StateFailureStrategy \in ValidStrategies
  /\ c.StateFile # ""
  /\ Len(c.DNS) # 0
  /\ \A i \in 1..Len(c.DNS) : DNSConfigValidate(c.DNS[i])

\* Config.Validate: nil (TRUE) or an error (FALSE).
Validate(c) ==
  /\ ~(c.PollInterval <= 0)
  /\ Len(c.DNS) # 0
  /\ c.CheckEndpoints # 0
  /\ c.PrimaryIP # ""
  /\ c.SecondaryIP # ""
  /\ ~(c.FailoverRetries < 0)
  /\ c.StateFailureStrategy \in ValidStrategies
  /\ c.StateFile # ""
  /\ \A i \in 1..Len(c.DNS) : DNSConfigValidate(c.DNS[i])

\* NewApplication: app.dnsProviders[dnsConfig.Name] = provider, in list order,
\* so a name maps to the provider built from the LAST record of that name.
dnsProviders(dns) ==
  [ n \in { dns[i].Name : i \in 1..Len(dns) } |->
      CHOOSE i \in 1..Len(dns) :
        /\ dns[i].Name = n
        /\ \A j \in 1..Len(dns) : dns[j].Name = n => j <= i ]

\* The provider-side record UpdateRecord of configured record i addresses:
\* provider instance, record name, record type.
RecordLocation(dns, i) ==
  << dnsProviders(dns)[dns[i].Name], dns[i].Name, dns[i].Type >>

Locations(dns) == { RecordLocation(dns, i) : i \in 1..Len(dns) }

\* --------------------------------------------------------------- state store
\* State{}: the zero value of the persisted document.
ZeroState ==
  [ LastAppliedIP |-> "", LastChangeTime |-> 0, LastCheckTime |-> 0,
    LastCheckIP |-> "", UpdateCount |-> 0, PrimaryFailureCount |-> 0 ]

AbsentFile == [ status |-> "absent", doc |-> ZeroState ]
CorruptFile == [ status |-> "corrupt", doc |-> ZeroState ]
\* A file whose content is part of one document or a mix of two.
TornFile == [ status |-> "torn", doc |-> ZeroState ]
FileOf(st) == [ status |-> "ok", doc |-> st ]

\* A store that empties the state file when it is built.
NewStoreTruncates(f) == AbsentFile

\* NewFileStateStore: keeps the path; the file is left as it is.
NewFileStateStore(f) == f

\* loadState: os.Stat says the file does not exist -> NotFoundError; the
\* select returns ctx.Err() when it sees ctx.Done() first; an unreadable or
\* unparsable file is an error; otherwise the document.
loadState(f, ctxDone) ==
  IF f.status = "absent" THEN [ err |-> "notfound", state |-> ZeroState ]
  ELSE IF ctxDone THEN [ err |-> "ctx", state |-> ZeroState ]
  ELSE IF f.status # "ok" THEN [ err |-> "corrupt", state |-> ZeroState ]
  ELSE [ err |-> "nil", state |-> f.doc ]

\* The setters' "state = &State{}" on every load error.
StateOrNew(ld) == IF ld.err = "nil" THEN ld.state ELSE ZeroState

\* What the document's fields read as: a missing or unreadable file reads as
\* the zero state (what every setter takes it for).
View(f) == IF f.status = "ok" THEN f.doc ELSE ZeroState

\* SetLastCheckInfo's change to the loaded (or new) document.
WithCheckInfo(st, ip, t) ==
  [ st EXCEPT !.LastCheckTime = t, !.LastCheckIP = ip ]

\* SetLastAppliedIP's change to the loaded (or new) document.
WithAppliedIP(st, ip, t) ==
  [ st EXCEPT !.LastAppliedIP = ip, !.LastChangeTime = t,
              !.UpdateCount = st.UpdateCount + 1 ]

\* SetPrimaryFailureCount's change to the loaded (or new) document.
WithFailureCount(st, count) ==
  [ st EXCEPT !.PrimaryFailureCount = count ]

\* A reset that leaves the stored counter as it is.
ResetKeepsCount(st) == st

\* ResetPrimaryFailureCount: SetPrimaryFailureCount(ctx, 0), as a change to
\* the loaded (or new) document.
ResetFailureCount(st) == WithFailureCount(st, 0)

\* SetPrimaryFailureCount returns the load error, without writing, unless the
\* load succeeded or the file does not exist.
CounterWriteRefused(ld) == ld.err # "nil" /\ ld.err # "notfound"

\* ------------------------------------------------------- decision engine
\* An increment by two.
IncrementTwice(n) == n + 2

\* failureCount++
Increment(n) == n + 1

\* A threshold test that excludes the threshold itself.
ThresholdExceeded(failureCount, retries) == failureCount > retries

\* if failureCount >= app.config.FailoverRetries
ThresholdReached(failureCount, retries) == failureCount >= retries

\* A decision that answers the primary address once the threshold is reached.
DecideSwapped(c, failureCount) ==
  IF ThresholdReached(failureCount, c.FailoverRetries)
    THEN c.PrimaryIP ELSE c.SecondaryIP

\* The address determineTargetIP returns after a failed probe.
DecideOnFailure(c, failureCount) ==
  IF ThresholdReached(failureCount, c.FailoverRetries)
    THEN c.SecondaryIP ELSE c.PrimaryIP

\* ----------------------------------------------------- orchestration loop
\* A comparison that never skips the update.
AlwaysUpdate(lastApplied, target) == TRUE

\* if lastAppliedIP == targetIP { return nil }
NeedsUpdate(lastApplied, target) == lastApplied # target

\* An error only when every record failed.
FailedOnlyIfAllFailed(failed, n) == failed = 1..n /\ n > 0

\* updateDNSRecords returns a non-nil multierr iff some record failed.
UpdateFailed(failed, n) == failed # {}

\* A loop that stops at the first failed record.
NextRecordAbortOnError(i, failedNow, n) == IF failedNow THEN n + 1 ELSE i + 1

\* The for loop of updateDNSRecords: "continue" after a failure as after a
\* success.
NextRecord(i, failedNow, n) == i + 1

\* ------------------------------------------------------------------- state
VARIABLES
  cfg,            \* app.config
  pc,             \* the statement Run / checkAndUpdateIP is about to execute
  cancelled,      \* the context handed to Run is done
  now,            \* time.Now(): the index of the running cycle
  boots,          \* times the process has been started again
  faults,         \* environment events so far: failed calls, cancellation,
                  \* damage to the state file, restarts
  env,            \* "any": calls may fail; "up"/"down": from here on no call
                  \* fails and the probe always succeeds / always fails
  file,           \* the state file: absent, unreadable, or a document
  leaked,         \* documents whose saveState goroutine is still writing
                  \* after saveState returned ctx.Err()
  zone,           \* the value each provider-side record holds ("" = none)
  currentIP,      \* locals of checkAndUpdateIP / determineTargetIP
  targetIP,
  lastAppliedIP,
  getLastErr,
  failureCount,
  idx,            \* position of updateDNSRecords' loop
  errs,           \* records whose error updateDNSRecords has appended
  probeOK,        \* history: the result of the last reachability probe
  clean,          \* history: no state-store call of this cycle failed so far
  trace,          \* history: provider and SetLastAppliedIP calls of this cycle
  cnt,            \* history: the last counter update of determineTargetIP
  failSeq,        \* history: counter and decision of each cycle of the
                  \* current run of failed probes that began at counter 0
                  \* with every state-store call succeeding
  owed,           \* history: targets whose last update failed for every record
  startView,      \* history: the applied-address fields when the cycle began
  storedSame,     \* history: the file held the target when it was compared
  outcome,        \* history: how the last checkAndUpdateIP returned
  mutex,          \* FileStateStore.mutex: the writer and the readers holding it
  call,           \* per caller of the store: the operation in progress
  gor,            \* the goroutines of loadState and saveState still running
                  \* or not yet received from
  tmp,            \* the temporary file filePath + ".tmp"
  calls,          \* store operations invoked so far; also their clock
  ret,            \* history: how the last operation returned, until the next
  provider,       \* the DNS provider under call: its name, the proxied
                  \* setting of its configuration, its cached zone
  records,        \* the records the provider holds
  req,            \* the provider call in progress and the API calls it made
  out,            \* history: how the last provider call returned
  dnsCalls,       \* provider calls made so far
  wrapped,        \* the error under classification: the errors of its
                  \* Unwrap chain, the outermost first
  retryable,      \* what IsRetryableError returned for it, in a sequence
  decided         \* history: what the last failed probe led to, when no
                  \* probe has succeeded since ("" otherwise)

appVars == << cfg, pc, cancelled, now, env, faults, boots >>
storeVars == << file, leaked >>
localVars ==
  << currentIP, targetIP, lastAppliedIP, getLastErr, failureCount, idx, errs >>
histVars ==
  << probeOK, clean, trace, cnt, failSeq, owed, startView, storedSame, outcome >>
dnsVars == << provider, records, req, out, dnsCalls >>
errVars == << wrapped, retryable >>
restVars == << mutex, call, gor, tmp, calls, ret, dnsVars, errVars >>
ioVars == << restVars, decided >>
vars == << appVars, storeVars, zone, localVars, histVars, ioVars >>

NumRecords == Len(cfg.DNS)

\* The three fields SetLastAppliedIP owns.
AppliedFields(st) == << st.LastAppliedIP, st.LastChangeTime, st.UpdateCount >>

NoCount ==
  [ op |-> "none", before |-> 0, readOK |-> TRUE, read |-> 0,
    wrote |-> FALSE, after |-> 0 ]

\* Outcomes the environment may give a call.
Results == IF env = "any" /\ faults < MaxFaults THEN BOOLEAN ELSE {TRUE}
\* The fault count after a call with result ok.
Charged(ok) == IF ok THEN faults ELSE faults + 1
\* The value at which the failure counter is kept in a stable environment.
CounterCap == MaxCycles + MaxRetries
ProbeResults == IF env = "any" THEN BOOLEAN ELSE {env = "up"}
\* Whether a select that waits on ctx.Done() takes that case.
CtxSeen == IF cancelled THEN BOOLEAN ELSE {FALSE}

\* The users of the state store: Run's loop and the health check.
Callers == {"loop", "health"}

NoLoad == [ err |-> "none", state |-> ZeroState ]

\* A caller that is in no operation.
IdleCall ==
  [ op |-> "none", ip |-> "", n |-> 0, pc |-> "idle", done |-> FALSE,
    ld |-> NoLoad, before |-> 0 ]

NoReturn ==
  [ by |-> "none", op |-> "none", ip |-> "", n |-> 0, done |-> FALSE,
    ld |-> "none",
    err |-> "none", val |-> ZeroState, before |-> 0, after |-> ZeroState ]

\* A provider call returning nil, and the two kinds of error it can return:
\* errors.NewDNSProviderError(provider, record, err), and an error handed
\* up as fmt.Errorf made it.
NoError == [ kind |-> "nil", Provider |-> "", Record |-> "" ]

NewDNSProviderError(p, r) ==
  [ kind |-> "DNSProviderError", Provider |-> p, Record |-> r ]

RawError == [ kind |-> "error", Provider |-> "", Record |-> "" ]

\* (*interfaces.DNSRecord)(nil), and the record of no lookup.
NoRecord ==
  [ id |-> 0, name |-> "", type |-> "", value |-> "", ttl |-> 0,
    extra |-> FALSE ]

\* No provider call in progress.
ReqIdle ==
  [ op |-> "none", name |-> "", type |-> "", value |-> "", ttl |-> 0,
    pc |-> "idle", id |-> 0, api |-> << >>, again |-> FALSE, before |-> {} ]

\* No provider call has returned since the last one began.
NoOut ==
  [ op |-> "none", name |-> "", type |-> "", value |-> "", ttl |-> 0,
    id |-> 0, api |-> << >>, again |-> FALSE, before |-> {},
    err |-> NoError, rec |-> NoRecord ]

\* No provider is under call.
ProviderIdle ==
  /\ provider = [ name |-> "none", proxied |-> FALSE, zone |-> FALSE ]
  /\ records = {}
  /\ req = ReqIdle
  /\ out = NoOut
  /\ dnsCalls = 0

\* No error has been handed to IsRetryableError.
Unclassified ==
  /\ wrapped = << >>
  /\ retryable = << >>

\* The store with no operation in progress.
StoreIdle ==
  /\ mutex = [ w |-> "none", r |-> {} ]
  /\ call = [ c \in Callers |-> IdleCall ]
  /\ gor = {}
  /\ tmp = AbsentFile
  /\ calls = 0
  /\ ret = NoReturn

Init ==
  /\ StoreIdle
  /\ Unclassified
  /\ ProviderIdle
  /\ cfg \in Configs
  /\ pc = "main"
  /\ cancelled = FALSE
  /\ now = 0
  /\ env = "any"
  /\ faults = 0
  /\ boots = 0
  /\ file = AbsentFile
  /\ leaked = {}
  /\ zone = [ l \in Locations(cfg.DNS) |-> "" ]
  /\ currentIP = ""
  /\ targetIP = ""
  /\ lastAppliedIP = ""
  /\ getLastErr = FALSE
  /\ failureCount = 0
  /\ idx = 0
  /\ errs = {}
  /\ probeOK = TRUE
  /\ clean = TRUE
  /\ trace = << >>
  /\ cnt = NoCount
  /\ failSeq = << >>
  /\ owed = {}
  /\ startView = AppliedFields(ZeroState)
  /\ storedSame = FALSE
  /\ outcome = "none"
  /\ decided = ""

\* saveState: with the result case of its select, the goroutine's write and
\* rename have finished (written) or failed and the file is what it was;
\* with the ctx.Done() case saveState returns ctx.Err() while the goroutine
\* goes on writing.
saveState(st, written, ctxCase) ==
  /\ file' = IF ~ctxCase /\ written THEN FileOf(st) ELSE file
  /\ leaked' = IF ctxCase THEN leaked \cup {st} ELSE leaked
  /\ faults' = IF ctxCase THEN faults ELSE Charged(written)

\* SetPrimaryFailureCount under its lock: the load error is returned before
\* anything is written; otherwise the loaded (or new) document is saved with
\* the change.  counterOK tells whether the call returned nil.
SetCounter(ld, st, counterOK) ==
  IF CounterWriteRefused(ld)
    THEN /\ counterOK = FALSE
         /\ UNCHANGED << file, leaked, faults >>
    ELSE \E written \in Results :
           /\ counterOK = written
           /\ saveState(st, written, FALSE)

\* ----------------------------------------------------------------- startup
\* main: config.LoadConfig validates the configuration; an invalid one ends
\* the process before NewApplication.
LoadConfig ==
  /\ pc = "main"
  /\ pc' = IF Validate(cfg) THEN "Validate" ELSE "rejected"
  /\ file' = IF Validate(cfg) THEN NewFileStateStore(file) ELSE file
  /\ UNCHANGED << cfg, boots, cancelled, now, env, faults, leaked, zone,
                  localVars, histVars >>
  /\ UNCHANGED ioVars

\* A Run that logs a provider's validation error and starts the loop.
RunDespiteValidateError(ok) == "initial"

\* Run: "return fmt.Errorf("DNS provider %s validation failed: %w", ...)",
\* or on to the initial check.
AfterValidate(ok) == IF ok THEN "initial" ELSE "exited"

\* Run: provider.Validate for every provider; the first error returns.
ValidateProviders ==
  /\ pc = "Validate"
  /\ \E ok \in Results :
       /\ pc' = AfterValidate(ok)
       /\ faults' = Charged(ok)
  /\ UNCHANGED << cfg, boots, cancelled, now, env, storeVars, zone, localVars, histVars >>
  /\ UNCHANGED ioVars

\* ------------------------------------------------------- checkAndUpdateIP
\* A detection error that is logged while the cycle goes on.
ContinueAfterIPCheckError(ok) == "SetLastCheckInfo"

\* checkAndUpdateIP: "if err != nil { ...; return ... }" after GetCurrentIP.
AfterGetCurrentIP(ok) == IF ok THEN "SetLastCheckInfo" ELSE "select"

\* checkAndUpdateIP: app.metrics.IncrementIPCheckErrors().
IPCheckError == [ op |-> "IncrementIPCheckErrors", rec |-> 0, ok |-> FALSE ]

\* Entry of checkAndUpdateIP and its GetCurrentIP call: an error returns at
\* once, a detected address goes on to SetLastCheckInfo.  The cycles are
\* counted up to MaxCycles; in a stable environment they go on beyond it,
\* the clock standing still.
BeginCheck ==
  /\ now < MaxCycles \/ env # "any"
  /\ now' = IF now < MaxCycles THEN now + 1 ELSE now
  /\ \E ok \in Results :
       /\ pc' = AfterGetCurrentIP(ok)
       /\ currentIP' = IF ok THEN DetectedAddr ELSE ""
       /\ outcome' = IF ok THEN "running" ELSE "ip_check_failed"
       /\ failSeq' = IF ok THEN failSeq ELSE << >>
       /\ faults' = Charged(ok)
       /\ trace' = IF ok THEN << >> ELSE << IPCheckError >>
  /\ targetIP' = ""
  /\ lastAppliedIP' = ""
  /\ getLastErr' = FALSE
  /\ failureCount' = 0
  /\ idx' = 0
  /\ errs' = {}
  /\ probeOK' = TRUE
  /\ clean' = TRUE
  /\ cnt' = NoCount
  /\ storedSame' = FALSE
  /\ startView' = AppliedFields(View(file))
  /\ UNCHANGED << cfg, boots, cancelled, env, storeVars, zone, owed >>
  /\ UNCHANGED ioVars

\* Run: "Run initial check".
InitialCheck ==
  /\ pc = "initial"
  /\ BeginCheck

\* Run: case <-ticker.C.
TickerCheck ==
  /\ pc = "select"
  /\ BeginCheck

\* The ways checkAndUpdateIP returns an error.
FailedOutcomes == {"ip_check_failed", "update_failed", "state_failed"}

\* A loop that also returns when the cycle before returned an error.
RunReturnsOnCycleError(cycleFailed, ctxDone) == ctxDone \/ cycleFailed

\* Run: the cycle's error is logged; the loop is left only through
\* "case <-ctx.Done()".
RunReturns(cycleFailed, ctxDone) == ctxDone

\* Run: case <-ctx.Done(): return ctx.Err().
Shutdown ==
  /\ pc = "select"
  /\ RunReturns(outcome \in FailedOutcomes, cancelled)
  /\ pc' = "returned"
  /\ UNCHANGED << cfg, boots, cancelled, now, env, faults, storeVars, zone, localVars,
                  histVars >>
  /\ UNCHANGED ioVars

\* A cycle that returns when the check information cannot be saved.
ReturnOnCheckInfoError(failed) ==
  IF failed THEN "select" ELSE "checkIPReachability"

\* checkAndUpdateIP: an error of SetLastCheckInfo is logged as a warning and
\* the cycle goes on to determineTargetIP.
AfterSetLastCheckInfo(failed) == "checkIPReachability"

\* SetLastCheckInfo up to its lock: "if err := ctx.Err(); err != nil".
SetLastCheckInfoEnter ==
  /\ pc = "SetLastCheckInfo"
  /\ pc' = IF cancelled THEN AfterSetLastCheckInfo(TRUE)
           ELSE "SetLastCheckInfo.locked"
  /\ clean' = (clean /\ ~cancelled)
  /\ failSeq' = IF cancelled THEN << >> ELSE failSeq
  /\ UNCHANGED << cfg, boots, cancelled, now, env, faults, storeVars, zone, localVars,
                  probeOK, trace, cnt, owed, startView, storedSame, outcome >>
  /\ UNCHANGED ioVars

\* SetLastCheckInfo under its lock: loadState, the two assignments, saveState.
SetLastCheckInfo ==
  /\ pc = "SetLastCheckInfo.locked"
  /\ \E ctxLoad \in CtxSeen, ctxSave \in CtxSeen, written \in Results :
       LET st == WithCheckInfo(StateOrNew(loadState(file, ctxLoad)), currentIP, now)
           failed == ctxLoad \/ ctxSave \/ ~written
       IN /\ saveState(st, written, ctxSave)
          /\ clean' = (clean /\ ~failed)
          /\ failSeq' = IF failed THEN << >> ELSE failSeq
          /\ pc' = AfterSetLastCheckInfo(failed)
  /\ UNCHANGED << cfg, boots, cancelled, now, env, zone, localVars,
                  probeOK, trace, cnt, owed, startView, storedSame, outcome >>
  /\ UNCHANGED ioVars

\* determineTargetIP: checkIPReachability(ctx, app.config.PrimaryIP).
checkIPReachability ==
  /\ pc = "checkIPReachability"
  /\ \E ok \in ProbeResults :
       /\ probeOK' = ok
       /\ pc' = IF ok THEN "ResetPrimaryFailureCount" ELSE "GetPrimaryFailureCount"
  /\ UNCHANGED << cfg, boots, cancelled, now, env, faults, storeVars, zone, localVars,
                  clean, trace, cnt, failSeq, owed, startView, storedSame, outcome >>
  /\ UNCHANGED ioVars

\* The return of determineTargetIP into checkAndUpdateIP: an empty target
\* returns nil, any other goes on to GetLastAppliedIP.
AfterDecision(target) ==
  /\ targetIP' = target
  /\ pc' = IF target = "" THEN "select" ELSE "GetLastAppliedIP"
  /\ outcome' = IF target = "" THEN "no_target" ELSE outcome

\* determineTargetIP, probe succeeded: ResetPrimaryFailureCount under the
\* function's own context, then "return app.config.PrimaryIP".
ResetPrimaryFailureCount ==
  /\ pc = "ResetPrimaryFailureCount"
  /\ \E ok \in BOOLEAN :
       /\ LET ld == loadState(file, FALSE)
          IN SetCounter(ld, ResetFailureCount(StateOrNew(ld)), ok)
       /\ cnt' = [ op |-> "reset", before |-> View(file).PrimaryFailureCount,
                   readOK |-> TRUE, read |-> 0, wrote |-> ok,
                   after |-> View(file').PrimaryFailureCount ]
       /\ clean' = (clean /\ ok)
  /\ failSeq' = << >>
  /\ AfterDecision(cfg.PrimaryIP)
  /\ UNCHANGED << cfg, boots, cancelled, now, env, zone, currentIP, lastAppliedIP,
                  getLastErr, failureCount, idx, errs, probeOK, trace, owed,
                  startView, storedSame >>
  /\ decided' = ""
  /\ UNCHANGED restVars

\* determineTargetIP, probe failed: GetPrimaryFailureCount; a missing file
\* reads as 0 without error, any other load error makes the caller use 0.
GetPrimaryFailureCount ==
  /\ pc = "GetPrimaryFailureCount"
  /\ LET ld == loadState(file, FALSE)
         getErr == ld.err # "nil" /\ ld.err # "notfound"
     IN /\ failureCount' = IF ld.err = "nil" THEN ld.state.PrimaryFailureCount ELSE 0
        /\ cnt' = [ op |-> "get", before |-> View(file).PrimaryFailureCount,
                    readOK |-> ~getErr, read |-> failureCount',
                    wrote |-> FALSE, after |-> View(file).PrimaryFailureCount ]
        /\ clean' = (clean /\ ~getErr)
  /\ pc' = "SetPrimaryFailureCount"
  /\ UNCHANGED << cfg, boots, cancelled, now, env, faults, storeVars, zone, currentIP,
                  targetIP, lastAppliedIP, getLastErr, idx, errs, probeOK, trace,
                  failSeq, owed, startView, storedSame, outcome >>
  /\ UNCHANGED ioVars

\* determineTargetIP, probe failed: failureCount++, SetPrimaryFailureCount,
\* and the threshold test that picks the returned address.  With the probe
\* failing for good the counter is kept at CounterCap, a value no run of
\* MaxCycles cycles reaches: from FailoverRetries on every value gives the
\* same decision.
SetPrimaryFailureCount ==
  /\ pc = "SetPrimaryFailureCount"
  /\ failureCount' = IF env = "down" /\ failureCount >= CounterCap
                       THEN failureCount ELSE Increment(failureCount)
  /\ AfterDecision(DecideOnFailure(cfg, failureCount'))
  /\ \E ok \in BOOLEAN :
       LET ld == loadState(file, FALSE)
           allOK == clean /\ cnt.readOK /\ ok
           starts == failSeq # << >> \/ cnt.read = 0
       IN /\ SetCounter(ld, WithFailureCount(StateOrNew(ld), failureCount'), ok)
          /\ cnt' = [ cnt EXCEPT !.op = "inc", !.wrote = ok,
                                 !.after = View(file').PrimaryFailureCount ]
          /\ clean' = (clean /\ ok)
          /\ failSeq' = IF failureCount' = failureCount THEN failSeq
                        ELSE IF allOK /\ starts
                          THEN Append(failSeq,
                                 [ count |-> failureCount',
                                   decision |-> targetIP', boot |-> boots ])
                          ELSE << >>
  /\ UNCHANGED << cfg, boots, cancelled, now, env, zone, currentIP, lastAppliedIP,
                  getLastErr, idx, errs, probeOK, trace, owed, startView,
                  storedSame >>
  /\ decided' = DecideOnFailure(cfg, failureCount')
  /\ UNCHANGED restVars

\* checkAndUpdateIP: "if lastAppliedIP == targetIP { return nil }", else on
\* to updateDNSRecords.
Compare(read) ==
  /\ lastAppliedIP' = read
  /\ storedSame' = (file.status = "ok" /\ file.doc.LastAppliedIP = targetIP)
  /\ IF NeedsUpdate(read, targetIP)
       THEN /\ pc' = "UpdateRecord"
            /\ idx' = 1
            /\ outcome' = outcome
       ELSE /\ pc' = "select"
            /\ idx' = idx
            /\ outcome' = "unchanged"

\* GetLastAppliedIP up to its lock.  On ctx.Err() the caller logs the error
\* and compares the target with the empty address it got.
GetLastAppliedIPEnter ==
  /\ pc = "GetLastAppliedIP"
  /\ IF cancelled
       THEN /\ getLastErr' = TRUE
            /\ clean' = FALSE
            /\ failSeq' = << >>
            /\ Compare("")
       ELSE /\ pc' = "GetLastAppliedIP.locked"
            /\ UNCHANGED << lastAppliedIP, getLastErr, idx, clean, failSeq,
                            storedSame, outcome >>
  /\ UNCHANGED << cfg, boots, cancelled, now, env, faults, storeVars, zone, currentIP,
                  targetIP, failureCount, errs, probeOK, trace, cnt, owed,
                  startView >>
  /\ UNCHANGED ioVars

\* GetLastAppliedIP under its read lock: loadState; every error, the
\* not-found error included, leaves the caller with the empty address.
GetLastAppliedIP ==
  /\ pc = "GetLastAppliedIP.locked"
  /\ \E ctxLoad \in CtxSeen :
       LET ld == loadState(file, ctxLoad)
       IN /\ getLastErr' = (ld.err # "nil")
          /\ clean' = (clean /\ ld.err = "nil")
          /\ failSeq' = IF ld.err = "nil" THEN failSeq ELSE << >>
          /\ Compare(IF ld.err = "nil" THEN ld.state.LastAppliedIP ELSE "")
  /\ UNCHANGED << cfg, boots, cancelled, now, env, faults, storeVars, zone, currentIP,
                  targetIP, failureCount, errs, probeOK, trace, cnt, owed,
                  startView >>
  /\ UNCHANGED ioVars

\* One iteration of updateDNSRecords' loop: the provider looked up by the
\* record's name, UpdateRecord with the target, the error appended.  A
\* request made with a context that is already done fails.  After the last
\* record checkAndUpdateIP returns the aggregated error, or goes on to
\* SetLastAppliedIP when there is none.
UpdateRecord ==
  /\ pc = "UpdateRecord"
  /\ idx \in 1..NumRecords
  /\ \E ok \in (IF cancelled THEN {FALSE} ELSE Results) :
       LET exists == cfg.DNS[idx].Name \in DOMAIN dnsProviders(cfg.DNS)
           failedNow == ~exists \/ ~ok
           failed == IF failedNow THEN errs \cup {idx} ELSE errs
           next == NextRecord(idx, failedNow, NumRecords)
           over == next > NumRecords
           loc == RecordLocation(cfg.DNS, idx)
       IN /\ zone' = IF failedNow THEN zone ELSE [ zone EXCEPT ![loc] = targetIP ]
          /\ errs' = failed
          /\ idx' = next
          /\ faults' = IF cancelled THEN faults ELSE Charged(ok)
          /\ trace' = IF exists
                        THEN Append(trace, [ op |-> "UpdateRecord", rec |-> idx,
                                             ok |-> ok ])
                        ELSE trace
          /\ pc' = IF ~over THEN "UpdateRecord"
                   ELSE IF UpdateFailed(failed, NumRecords) THEN "select"
                   ELSE "SetLastAppliedIP"
          /\ outcome' = IF over /\ UpdateFailed(failed, NumRecords)
                          THEN "update_failed" ELSE outcome
          /\ owed' = IF ~over THEN owed
                     ELSE IF failed = 1..NumRecords THEN owed \cup {targetIP}
                     ELSE owed \ {targetIP}
  /\ UNCHANGED << cfg, boots, cancelled, now, env, storeVars, currentIP, targetIP,
                  lastAppliedIP, getLastErr, failureCount, probeOK, clean, cnt,
                  failSeq, startView, storedSame >>
  /\ UNCHANGED ioVars

\* SetLastAppliedIP up to its lock; ctx.Err() makes checkAndUpdateIP return
\* "failed to update state".
SetLastAppliedIPEnter ==
  /\ pc = "SetLastAppliedIP"
  /\ trace' = Append(trace, [ op |-> "SetLastAppliedIP", rec |-> 0,
                              ok |-> ~cancelled ])
  /\ pc' = IF cancelled THEN "select" ELSE "SetLastAppliedIP.locked"
  /\ outcome' = IF cancelled THEN "state_failed" ELSE outcome
  /\ clean' = (clean /\ ~cancelled)
  /\ failSeq' = IF cancelled THEN << >> ELSE failSeq
  /\ UNCHANGED << cfg, boots, cancelled, now, env, faults, storeVars, zone, localVars,
                  probeOK, cnt, owed, startView, storedSame >>
  /\ UNCHANGED ioVars

\* SetLastAppliedIP under its lock: loadState, the three assignments,
\* saveState; then the return of checkAndUpdateIP.
SetLastAppliedIP ==
  /\ pc = "SetLastAppliedIP.locked"
  /\ \E ctxLoad \in CtxSeen, ctxSave \in CtxSeen, written \in Results :
       LET st == WithAppliedIP(StateOrNew(loadState(file, ctxLoad)), targetIP, now)
           saveErr == ctxSave \/ ~written
       IN /\ saveState(st, written, ctxSave)
          /\ outcome' = IF saveErr THEN "state_failed" ELSE "applied"
          /\ clean' = (clean /\ ~saveErr /\ ~ctxLoad)
          /\ failSeq' = IF saveErr \/ ctxLoad THEN << >> ELSE failSeq
  /\ pc' = "select"
  /\ UNCHANGED << cfg, boots, cancelled, now, env, zone, localVars,
                  probeOK, trace, cnt, owed, startView, storedSame >>
  /\ UNCHANGED ioVars

\* ------------------------------------------------------------- environment
InLoop == pc \notin {"main", "Validate", "rejected", "exited", "returned"}

\* main's signal handler: cancel().
Cancel ==
  /\ InLoop
  /\ env = "any"
  /\ faults < MaxFaults
  /\ ~cancelled
  /\ cancelled' = TRUE
  /\ faults' = faults + 1
  /\ UNCHANGED << cfg, boots, pc, now, env, storeVars, zone, localVars, histVars >>
  /\ UNCHANGED ioVars

\* The process ends, between two cycles or after Run returned, and is
\* started again with the same configuration on the same state file.  The
\* goroutines of the old process end with it.
Restart ==
  /\ pc \in {"select", "returned"}
  /\ env = "any"
  /\ faults < MaxFaults
  /\ faults' = faults + 1
  /\ boots' = boots + 1
  /\ pc' = "main"
  /\ cancelled' = FALSE
  /\ leaked' = {}
  /\ currentIP' = ""
  /\ targetIP' = ""
  /\ lastAppliedIP' = ""
  /\ getLastErr' = FALSE
  /\ failureCount' = 0
  /\ idx' = 0
  /\ errs' = {}
  /\ probeOK' = TRUE
  /\ clean' = TRUE
  /\ trace' = << >>
  /\ cnt' = NoCount
  /\ storedSame' = FALSE
  /\ startView' = AppliedFields(View(file))
  /\ outcome' = "none"
  /\ UNCHANGED << cfg, now, env, file, zone, failSeq, owed >>
  /\ UNCHANGED ioVars

\* The state file becomes unreadable or unparsable.
Damage ==
  /\ InLoop
  /\ env = "any"
  /\ faults < MaxFaults
  /\ file.status = "ok"
  /\ file' = CorruptFile
  /\ faults' = faults + 1
  /\ clean' = FALSE
  /\ failSeq' = << >>
  /\ startView' = AppliedFields(ZeroState)
  /\ UNCHANGED << cfg, boots, pc, cancelled, now, env, leaked, zone, localVars,
                  probeOK, trace, cnt, owed, storedSame, outcome >>
  /\ UNCHANGED ioVars

\* The goroutine of a saveState that returned ctx.Err() finishes: its
\* rename replaces the file, or its write or rename fails.
LeakedWriteCompletes ==
  /\ \E st \in leaked, written \in Results :
       /\ file' = IF written THEN FileOf(st) ELSE file
       /\ leaked' = leaked \ {st}
       /\ faults' = Charged(written)
  /\ clean' = FALSE
  /\ failSeq' = << >>
  /\ UNCHANGED << cfg, boots, pc, cancelled, now, env, zone, localVars,
                  probeOK, trace, cnt, owed, startView, storedSame, outcome >>
  /\ UNCHANGED ioVars

Cycle ==
  \/ InitialCheck
  \/ TickerCheck
  \/ SetLastCheckInfoEnter
  \/ SetLastCheckInfo
  \/ checkIPReachability
  \/ ResetPrimaryFailureCount
  \/ GetPrimaryFailureCount
  \/ SetPrimaryFailureCount
  \/ GetLastAppliedIPEnter
  \/ GetLastAppliedIP
  \/ UpdateRecord
  \/ SetLastAppliedIPEnter
  \/ SetLastAppliedIP

Next ==
  \/ LoadConfig
  \/ ValidateProviders
  \/ Cycle
  \/ Shutdown
  \/ Cancel
  \/ Restart
  \/ Damage
  \/ LeakedWriteCompletes

Spec == Init /\ [][Next]_vars

\* ------------------------------------------------- a stable environment
\* From here on IP detection, provider calls and state-store calls succeed,
\* nothing cancels the run or damages the file, and the probe outcome is
\* constant.  Chosen between two cycles.
Stabilise ==
  /\ pc = "select"
  /\ env = "any"
  /\ ~cancelled
  /\ leaked = {}
  /\ file.status # "corrupt"
  /\ env' \in {"up", "down"}
  /\ UNCHANGED << cfg, boots, pc, cancelled, now, faults, storeVars, zone, localVars,
                  histVars >>
  /\ UNCHANGED ioVars

NextStable ==
  \/ Next
  \/ Stabilise

\* The ticker keeps firing and every call of a cycle returns.
FairSpec == Init /\ [][NextStable]_vars /\ WF_vars(Cycle)

\* ------------------------------------------------- the state store, by step
\* The operations of FileStateStore followed statement by statement: the
\* ctx.Err() check, the lock, loadState with its reading goroutine and its
\* select, the assignments, saveState with its writing goroutine and its
\* select, the unlock.  A goroutine goes on after its select returned on
\* ctx.Done().
Readers ==
  {"GetLastAppliedIP", "GetLastChangeTime", "GetLastCheckInfo",
   "GetUpdateCount", "GetPrimaryFailureCount"}

Writers ==
  {"SetLastAppliedIP", "SetLastChangeTime", "SetLastCheckInfo",
   "SetPrimaryFailureCount", "ResetPrimaryFailureCount"}

CounterWriters == {"SetPrimaryFailureCount", "ResetPrimaryFailureCount"}

\* The operations each caller makes: checkAndUpdateIP uses the store's
\* whole interface, HealthCheck reads the applied address.
OpsOf(c) == IF c = "health" THEN {"GetLastAppliedIP"} ELSE Readers \cup Writers

\* The address arguments and counter arguments the callers pass.
IPArgs(op) ==
  IF op = "SetLastAppliedIP" THEN {SecondaryAddr}
  ELSE IF op = "SetLastCheckInfo" THEN {DetectedAddr}
  ELSE {""}

CountArgs(op) == IF op = "SetPrimaryFailureCount" THEN {2} ELSE {0}

\* IsNotFoundError: the error is a *NotFoundError itself.
IsNotFoundError(err) == err = "notfound"

\* The fields of the document a read operation returns.
ReadValue(op, st) ==
  IF op = "GetLastAppliedIP"
    THEN [ ZeroState EXCEPT !.LastAppliedIP = st.LastAppliedIP ]
  ELSE IF op = "GetLastChangeTime"
    THEN [ ZeroState EXCEPT !.LastChangeTime = st.LastChangeTime ]
  ELSE IF op = "GetLastCheckInfo"
    THEN [ ZeroState EXCEPT !.LastCheckIP = st.LastCheckIP,
                            !.LastCheckTime = st.LastCheckTime ]
  ELSE IF op = "GetUpdateCount"
    THEN [ ZeroState EXCEPT !.UpdateCount = st.UpdateCount ]
  ELSE [ ZeroState EXCEPT !.PrimaryFailureCount = st.PrimaryFailureCount ]

\* Getters that report an unreadable file as a file that does not exist.
ReadResultCorruptAsNotFound(op, ld) ==
  IF ld.err = "nil" THEN [ err |-> "nil", val |-> ReadValue(op, ld.state) ]
  ELSE IF op = "GetPrimaryFailureCount" /\ ld.err = "notfound"
    THEN [ err |-> "nil", val |-> ZeroState ]
  ELSE [ err |-> "notfound", val |-> ZeroState ]

\* What a read operation returns after loadState: the four getters return
\* the not-found error as it is and wrap every other error in a StateError;
\* GetPrimaryFailureCount returns 0 and nil for not-found and every other
\* error as it is.
ReadResult(op, ld) ==
  IF ld.err = "nil" THEN [ err |-> "nil", val |-> ReadValue(op, ld.state) ]
  ELSE IF op = "GetPrimaryFailureCount"
    THEN IF IsNotFoundError(ld.err)
           THEN [ err |-> "nil", val |-> ZeroState ]
           ELSE [ err |-> ld.err, val |-> ZeroState ]
  ELSE IF IsNotFoundError(ld.err)
    THEN [ err |-> "notfound", val |-> ZeroState ]
  ELSE [ err |-> "state", val |-> ZeroState ]

\* Whether a write operation returns the load error without writing.
WriteRefused(op, ld) == op \in CounterWriters /\ CounterWriteRefused(ld)

\* The document a write operation hands to saveState.
Changed(op, st, ip, n, t) ==
  IF op = "SetLastAppliedIP" THEN WithAppliedIP(st, ip, t)
  ELSE IF op = "SetLastChangeTime" THEN [ st EXCEPT !.LastChangeTime = t ]
  ELSE IF op = "SetLastCheckInfo" THEN WithCheckInfo(st, ip, t)
  ELSE IF op = "SetPrimaryFailureCount" THEN WithFailureCount(st, n)
  ELSE ResetFailureCount(st)

\* The error a write operation returns for saveState's error: the counter
\* operations return it as it is, the others wrap it in a StateError.
WriteError(op, saveErr) ==
  IF saveErr = "nil" THEN "nil"
  ELSE IF op \in CounterWriters THEN saveErr
  ELSE "state"

\* The goroutine of the operation of caller c, if it has not been received
\* from.
GoroutineOf(c) == { g \in gor : g.owner = c }

\* Goroutines that have not finished their file access.
Running == { g \in gor : g.step # "sent" }

\* f.mutex.RLock() of the read operations and f.mutex.Lock() of the write
\* operations: whether the lock can be taken, and the mutex once caller c
\* holds it.
CanLock(op) == mutex.w = "none" /\ (op \in Writers => mutex.r = {})

Held(c, op) ==
  IF op \in Readers THEN [ mutex EXCEPT !.r = @ \cup {c} ]
  ELSE [ mutex EXCEPT !.w = c ]

\* The deferred RUnlock() or Unlock().
Released(c) ==
  [ w |-> IF mutex.w = c THEN "none" ELSE mutex.w, r |-> mutex.r \ {c} ]

\* The operation k of caller c returns: the deferred unlock, and the result
\* as the caller sees it.
Return(c, k, err, val) ==
  /\ ret' = [ by |-> c, op |-> k.op, ip |-> k.ip, n |-> k.n, done |-> k.done,
              ld |-> k.ld.err, err |-> err, val |-> val,
              before |-> k.before, after |-> View(file) ]
  /\ call' = [ call EXCEPT ![c] = IdleCall ]
  /\ mutex' = Released(c)

\* Everything but the state file and the store's own variables.
appSide ==
  << appVars, leaked, zone, localVars, histVars, dnsVars, errVars, decided >>

\* A goroutine whose result the operation that started it is waiting for;
\* the others have nobody left to receive from them.
Awaited(g) == g.owner \in Callers

\* A goroutine has sent its result: it stays until the result is received,
\* or is gone at once when nobody waits for it.
Finish(g, h) ==
  gor' = IF Awaited(g) THEN (gor \ {g}) \cup {h} ELSE gor \ {g}

\* The goroutines left when caller c stops waiting: its own goroutine is
\* gone if it has sent its result, and goes on without it otherwise.
LeftBehind(c) ==
  { IF g.owner = c THEN [ g EXCEPT !.owner = "none" ] ELSE g :
    g \in { h \in gor : h.owner # c \/ h.step # "sent" } }

\* loadState's goroutine around os.ReadFile.
ReadGoroutine(c, k) ==
  [ owner |-> c, kind |-> "read", step |-> "ReadFile",
    data |-> AbsentFile, fd |-> "file", dirty |-> FALSE, err |-> "nil" ]

\* saveState's goroutine around os.WriteFile and os.Rename, with the
\* document the operation marshalled.
WriteGoroutine(c, k) ==
  [ owner |-> c, kind |-> "write", step |-> "WriteFile.open",
    data |-> FileOf(Changed(k.op, StateOrNew(k.ld), k.ip, k.n, now + 1)),
    fd |-> "tmp", dirty |-> FALSE, err |-> "nil" ]

\* The operation k of caller c after loadState has returned k.ld, with the
\* goroutines rest: a read operation returns; a write operation returns the
\* load error (the counter operations), or makes its assignments to the
\* loaded or new document and starts saveState's goroutine.
AfterLoad(c, k, rest) ==
  IF k.op \in Readers
    THEN /\ Return(c, k, ReadResult(k.op, k.ld).err, ReadResult(k.op, k.ld).val)
         /\ gor' = rest
  ELSE IF WriteRefused(k.op, k.ld)
    THEN /\ Return(c, k, k.ld.err, ZeroState)
         /\ gor' = rest
  ELSE /\ call' = [ call EXCEPT ![c] = [ k EXCEPT !.pc = "saveState.select" ] ]
       /\ gor' = rest \cup {WriteGoroutine(c, k)}
       /\ mutex' = Held(c, k.op)
       /\ ret' = NoReturn

\* A caller invokes an operation of the store, up to its first file access:
\* the ctx.Err() check, the lock, and loadState's os.Stat, after which a
\* missing file is the not-found error and any other file is read by a
\* goroutine.
Invoke(c) ==
  /\ call[c].pc = "idle"
  /\ calls < MaxCalls
  /\ calls' = calls + 1
  /\ \E op \in OpsOf(c) : \E ip \in IPArgs(op), n \in CountArgs(op) :
     \E ctxErr \in BOOLEAN :
       LET k == [ IdleCall EXCEPT !.op = op, !.ip = ip, !.n = n,
                                  !.done = ctxErr,
                                  !.before = View(file).UpdateCount ]
       IN  IF ctxErr
             THEN /\ Return(c, k, "ctx", ZeroState)
                  /\ gor' = gor
           ELSE /\ CanLock(op)
                /\ IF file.status = "absent"
                     THEN AfterLoad(c, [ k EXCEPT !.ld = loadState(file, FALSE) ],
                                    gor)
                     ELSE /\ call' = [ call EXCEPT ![c] =
                                         [ k EXCEPT !.pc = "loadState.select" ] ]
                          /\ gor' = gor \cup {ReadGoroutine(c, k)}
                          /\ mutex' = Held(c, op)
                          /\ ret' = NoReturn
  /\ UNCHANGED << file, tmp, appSide >>

\* A HealthCheck that reports the state store as accessible whatever
\* GetLastAppliedIP returned.
HealthCheckIgnoresStateError(ipOK, err) ==
  IF ~ipOK THEN "IP check failed" ELSE "nil"

\* HealthCheck: what it returns for the results of GetCurrentIP and of
\* GetLastAppliedIP.
HealthCheck(ipOK, err) ==
  IF ~ipOK THEN "IP check failed"
  ELSE IF err # "nil" /\ ~IsNotFoundError(err)
    THEN "state store check failed"
  ELSE "nil"

\* HealthCheck: GetCurrentIP fails and HealthCheck returns before it calls
\* the store.
GetCurrentIPFails ==
  /\ call["health"].pc = "idle"
  /\ calls < MaxCalls
  /\ calls' = calls + 1
  /\ ret' = [ NoReturn EXCEPT !.by = "health", !.op = "GetCurrentIP",
                              !.err = "ipcheck" ]
  /\ UNCHANGED << file, mutex, call, gor, tmp, appSide >>

\* loadState's goroutine: os.ReadFile and the send of its result.
ReadFile(g) ==
  /\ g.kind = "read"
  /\ g.step = "ReadFile"
  /\ Finish(g, [ g EXCEPT !.step = "sent", !.data = file ])
  /\ UNCHANGED << file, mutex, call, tmp, calls, ret, appSide >>

\* loadState's select and what the operation does with its result: the file
\* that was read, parsed, or ctx.Err() when the context is cancelled by now.
LoadSelect(c) ==
  /\ call[c].pc = "loadState.select"
  /\ \/ \E g \in GoroutineOf(c) :
          /\ g.step = "sent"
          /\ AfterLoad(c, [ call[c] EXCEPT !.ld = loadState(g.data, FALSE) ],
                       gor \ {g})
     \/ AfterLoad(c, [ call[c] EXCEPT !.done = TRUE,
                                      !.ld = loadState(file, TRUE) ],
                  LeftBehind(c))
  /\ UNCHANGED << file, tmp, calls, appSide >>

\* saveState's goroutine, os.WriteFile: the temporary file is created or
\* truncated.
WriteFileOpen(g) ==
  /\ g.kind = "write"
  /\ g.step = "WriteFile.open"
  /\ tmp' = TornFile
  /\ gor' = (gor \ {g}) \cup {[ g EXCEPT !.step = "WriteFile.write" ]}
  /\ UNCHANGED << file, mutex, call, calls, ret, appSide >>

\* The goroutines that hold the same file open for writing as g.
OpenWith(g) ==
  { h \in gor : h # g /\ h.kind = "write" /\ h.step = "WriteFile.write"
                /\ h.fd = g.fd }

\* saveState's goroutine, os.WriteFile: the document is written from
\* offset 0 to the file that was opened.  That file is the temporary file,
\* or the state file itself when another goroutine has renamed it meanwhile,
\* or a file no longer reachable.  Bytes another goroutine wrote to it
\* meanwhile may remain after the document's end.
WriteFileWrite(g) ==
  /\ g.kind = "write"
  /\ g.step = "WriteFile.write"
  /\ \E content \in (IF g.dirty THEN {g.data, TornFile} ELSE {g.data}) :
       /\ tmp' = IF g.fd = "tmp" THEN content ELSE tmp
       /\ file' = IF g.fd = "file" THEN content ELSE file
  /\ gor' = { IF h = g THEN [ h EXCEPT !.step = "Rename" ]
              ELSE IF h \in OpenWith(g) THEN [ h EXCEPT !.dirty = TRUE ]
              ELSE h : h \in gor }
  /\ UNCHANGED << mutex, call, calls, ret, appSide >>

\* Where an open file is found after the temporary file has been renamed
\* onto the state file.
Renamed(fd) == IF fd = "tmp" THEN "file" ELSE "gone"

\* saveState's goroutine, os.Rename and the send of the result.  Without a
\* temporary file the rename fails, and so does the os.Remove after it.
Rename(g) ==
  /\ g.kind = "write"
  /\ g.step = "Rename"
  /\ IF tmp.status = "absent"
       THEN /\ Finish(g, [ g EXCEPT !.step = "sent", !.err = "rename" ])
            /\ UNCHANGED << file, tmp >>
       ELSE /\ file' = tmp
            /\ tmp' = AbsentFile
            /\ gor' = { IF h = g THEN [ h EXCEPT !.step = "sent" ]
                        ELSE IF h.step = "WriteFile.write"
                          THEN [ h EXCEPT !.fd = Renamed(h.fd) ]
                        ELSE h :
                        h \in IF Awaited(g) THEN gor ELSE gor \ {g} }
  /\ UNCHANGED << mutex, call, calls, ret, appSide >>

\* saveState's select: the goroutine's result, or ctx.Err() when the context
\* is cancelled by now, while the goroutine goes on; then the operation
\* returns.
SaveSelect(c) ==
  /\ call[c].pc = "saveState.select"
  /\ \/ \E g \in GoroutineOf(c) :
          /\ g.step = "sent"
          /\ Return(c, call[c], WriteError(call[c].op, g.err), ZeroState)
          /\ gor' = gor \ {g}
     \/ /\ Return(c, [ call[c] EXCEPT !.done = TRUE ],
                  WriteError(call[c].op, "ctx"), ZeroState)
        /\ gor' = LeftBehind(c)
  /\ UNCHANGED << file, tmp, calls, appSide >>

\* The process ends at any step: its operations and goroutines are gone,
\* the files stay as they are.
Crash ==
  /\ gor # {} \/ \E c \in Callers : call[c].pc # "idle"
  /\ call' = [ c \in Callers |-> IdleCall ]
  /\ ret' = NoReturn
  /\ gor' = {}
  /\ mutex' = [ w |-> "none", r |-> {} ]
  /\ UNCHANGED << file, tmp, calls, appSide >>

\* A document as an earlier process left it.
SeedState ==
  WithFailureCount(
    WithAppliedIP(WithCheckInfo(ZeroState, DetectedAddr, 0), PrimaryAddr, 0), 1)

\* The store on its own: no application around it, and a state file that
\* does not exist, cannot be parsed, or holds a document.
StoreInit ==
  /\ StoreIdle
  /\ Unclassified
  /\ ProviderIdle
  /\ file \in {AbsentFile, CorruptFile, FileOf(SeedState)}
  /\ cfg = CHOOSE c \in Configs : Validate(c)
  /\ pc = "store"
  /\ cancelled = FALSE
  /\ now = 0
  /\ env = "any"
  /\ faults = 0
  /\ boots = 0
  /\ leaked = {}
  /\ zone = [ l \in Locations(cfg.DNS) |-> "" ]
  /\ currentIP = ""
  /\ targetIP = ""
  /\ lastAppliedIP = ""
  /\ getLastErr = FALSE
  /\ failureCount = 0
  /\ idx = 0
  /\ errs = {}
  /\ probeOK = TRUE
  /\ clean = TRUE
  /\ trace = << >>
  /\ cnt = NoCount
  /\ failSeq = << >>
  /\ owed = {}
  /\ startView = AppliedFields(ZeroState)
  /\ storedSame = FALSE
  /\ outcome = "none"
  /\ decided = ""

StoreNext ==
  \/ \E c \in Callers : Invoke(c)
  \/ GetCurrentIPFails
  \/ \E g \in gor : ReadFile(g)
  \/ \E c \in Callers : LoadSelect(c)
  \/ \E g \in gor : WriteFileOpen(g)
  \/ \E g \in gor : WriteFileWrite(g)
  \/ \E g \in gor : Rename(g)
  \/ \E c \in Callers : SaveSelect(c)
  \/ Crash

StoreSpec == StoreInit /\ [][StoreNext]_vars

\* ------------------------------------------------ the DNS providers, by call
\* One provider serves UpdateRecord, GetRecord and DeleteRecord, one call at
\* a time.  Every call the provider makes to its API is a step of its own
\* that the API may fail, and is logged in req.api.  A provider-side record
\* carries, besides name, type, value and TTL, one attribute the caller's
\* DNSRecord does not hold (extra): Cloudflare's proxied flag, the routing
\* attributes of a Route53 record set, the comment of a Hetzner record.

RecordName == "a.example.com"
RecordTypes == {"A", "AAAA"}
Addresses == {PrimaryAddr, SecondaryAddr}
TTLs == {60, 300}

\* What the five providers do differently.  RejectsEmptyType: GetRecord and
\* DeleteRecord return an error for rtype == "" before any lookup.
\* Wildcard: findRecord matches any type when recordType == "".  WrapsWrite:
\* the error of the update or create call is wrapped in a DNSProviderError.
\* ParsesTTL: GetRecord converts the TTL of the matching record with
\* strconv.Atoi.  Attribute: what an update makes of the record's extra
\* attribute.
CloudflareProvider ==
  [ Name |-> "cloudflare", RejectsEmptyType |-> TRUE, Wildcard |-> FALSE,
    WrapsWrite |-> TRUE, ParsesTTL |-> FALSE, Attribute |-> "config" ]

CPanelProvider ==
  [ Name |-> "cpanel", RejectsEmptyType |-> FALSE, Wildcard |-> TRUE,
    WrapsWrite |-> FALSE, ParsesTTL |-> FALSE, Attribute |-> "keep" ]

Route53Provider ==
  [ Name |-> "route53", RejectsEmptyType |-> TRUE, Wildcard |-> TRUE,
    WrapsWrite |-> TRUE, ParsesTTL |-> FALSE, Attribute |-> "keep" ]

NamecheapProvider ==
  [ Name |-> "namecheap", RejectsEmptyType |-> FALSE, Wildcard |-> TRUE,
    WrapsWrite |-> FALSE, ParsesTTL |-> TRUE, Attribute |-> "keep" ]

HetznerProvider ==
  [ Name |-> "hetzner", RejectsEmptyType |-> FALSE, Wildcard |-> FALSE,
    WrapsWrite |-> FALSE, ParsesTTL |-> FALSE, Attribute |-> "clear" ]

Providers ==
  { CloudflareProvider, CPanelProvider, Route53Provider, NamecheapProvider,
    HetznerProvider }

Impl(n) == CHOOSE p \in Providers : p.Name = n

\* HetznerProvider.convertRecordType: nil for the types it has a case for.
convertRecordType(t) ==
  t \in {"A", "AAAA", "CNAME", "MX", "TXT", "NS", "SRV", "CAA"}

ProviderOps == {"UpdateRecord", "GetRecord", "DeleteRecord"}

\* The arguments a call is made with: a DNSRecord of the configuration for
\* UpdateRecord, a name and a type, which may be empty, for the other two.
Args(op) ==
  IF op = "UpdateRecord"
    THEN [ name : {RecordName}, type : RecordTypes, value : Addresses,
           ttl : TTLs ]
    ELSE [ name : {RecordName}, type : RecordTypes \cup {""}, value : {""},
           ttl : {0} ]

\* The loop of GetRecord compares name and type; findRecord, which
\* UpdateRecord and DeleteRecord call, also accepts any type for "" where
\* the provider has that clause; Cloudflare and Hetzner pass name and type
\* to the API's own filter.
Matches(n, op, r, name, type) ==
  /\ r.name = name
  /\ \/ r.type = type
     \/ type = "" /\ op # "GetRecord" /\ Impl(n).Wildcard

findRecord(n, op, name, type) ==
  { r \in records : Matches(n, op, r, name, type) }

CreateAlways(op, found) ==
  IF op = "UpdateRecord" THEN "create"
  ELSE IF found THEN "delete" ELSE "return"

DeleteUnconditionally(op, found) ==
  IF op = "UpdateRecord" THEN (IF found THEN "update" ELSE "create")
  ELSE "delete"

\* What UpdateRecord and DeleteRecord do with the result of the lookup.
AfterLookup(op, found) ==
  IF op = "UpdateRecord" THEN (IF found THEN "update" ELSE "create")
  ELSE IF found THEN "delete" ELSE "return"

\* The error UpdateRecord returns when its update or create call failed.
UpdateError(n, name) ==
  IF Impl(n).WrapsWrite THEN NewDNSProviderError(n, name) ELSE RawError

\* The extra attribute of a record after an update: Cloudflare sends the
\* configuration's proxied setting with every update, Hetzner replaces the
\* records of the set by one with an empty comment.
AttributeAfterUpdate(n, r) ==
  CASE Impl(n).Attribute = "config" -> provider.proxied
    [] Impl(n).Attribute = "clear" -> FALSE
    [] OTHER -> r.extra

\* The record a create call adds.
FreshID ==
  CHOOSE i \in 1..(1 + Cardinality(records)) : \A r \in records : r.id # i

Created(n, k) ==
  [ id |-> FreshID, name |-> k.name, type |-> k.type, value |-> k.value,
    ttl |-> k.ttl,
    extra |-> (Impl(n).Attribute = "config" /\ provider.proxied) ]

Logged(k, c, ok) == [ k EXCEPT !.api = Append(@, [ call |-> c, ok |-> ok ]) ]

\* The call returns err and, from GetRecord, the record rec.
Reply(k, err, rec) ==
  /\ out' = [ op |-> k.op, name |-> k.name, type |-> k.type,
              value |-> k.value, ttl |-> k.ttl, id |-> k.id, api |-> k.api,
              again |-> k.again, before |-> k.before, err |-> err,
              rec |-> rec ]
  /\ req' = ReqIdle
  /\ dnsCalls' = dnsCalls + 1

\* The call goes on with its next statement.
Proceed(k) ==
  /\ req' = k
  /\ out' = NoOut
  /\ UNCHANGED dnsCalls

dnsSide ==
  << appVars, storeVars, zone, localVars, histVars, mutex, call, gor, tmp,
     calls, ret, errVars, decided >>

\* HetznerProvider: after getZone, convertRecordType, whose error is
\* returned wrapped, then findRRSet.
AfterZone(k) ==
  IF convertRecordType(k.type)
    THEN Proceed([ k EXCEPT !.pc = "lookup" ])
    ELSE Reply(k, NewDNSProviderError("hetzner", k.name), NoRecord)

\* A call begins: the check of the record type where the provider has one,
\* for Hetzner getZone with the zone cached.
ProviderCall ==
  /\ pc = "dns"
  /\ req.pc = "idle"
  /\ dnsCalls < MaxDNSCalls
  /\ \E op \in ProviderOps :
       \E a \in Args(op) :
         LET n == provider.name
             k == [ ReqIdle EXCEPT
                      !.op = op, !.name = a.name, !.type = a.type,
                      !.value = a.value, !.ttl = a.ttl, !.before = records,
                      !.again = /\ op = "UpdateRecord"
                                /\ out.op = "UpdateRecord"
                                /\ out.err = NoError
                                /\ out.name = a.name /\ out.type = a.type
                                /\ out.value = a.value /\ out.ttl = a.ttl ]
         IN  IF op # "UpdateRecord" /\ a.type = "" /\ Impl(n).RejectsEmptyType
               THEN Reply(k, NewDNSProviderError(n, a.name), NoRecord)
             ELSE IF n = "hetzner"
               THEN IF provider.zone
                      THEN AfterZone(k)
                      ELSE Proceed([ k EXCEPT !.pc = "getZone" ])
             ELSE Proceed([ k EXCEPT !.pc = "lookup" ])
  /\ UNCHANGED << provider, records, dnsSide >>

\* HetznerProvider.getZone with no zone cached: client.Zone.Get.
getZone ==
  /\ pc = "dns"
  /\ req.pc = "getZone"
  /\ \E ok \in BOOLEAN :
       LET k == Logged(req, "Zone.Get", ok)
       IN  /\ provider' = [ provider EXCEPT !.zone = ok ]
           /\ IF ok
                THEN AfterZone(k)
                ELSE Reply(k, NewDNSProviderError("hetzner", k.name), NoRecord)
  /\ UNCHANGED << records, dnsSide >>

\* The lookup: listRecords, Records.List or GetRRSetByNameAndType.  Its
\* error is returned wrapped.  GetRecord returns the first match or nil,
\* DeleteRecord returns nil when nothing matched.
Lookup ==
  /\ pc = "dns"
  /\ req.pc = "lookup"
  /\ \E ok \in BOOLEAN :
       LET n == provider.name
           k == Logged(req, "list", ok)
           hits == findRecord(n, req.op, req.name, req.type)
       IN  IF ~ok
             THEN Reply(k, NewDNSProviderError(n, k.name), NoRecord)
           ELSE IF k.op = "GetRecord"
             THEN IF hits = {}
                    THEN Reply(k, NoError, NoRecord)
                    ELSE \E r \in hits, parses \in BOOLEAN :
                           /\ parses \/ Impl(n).ParsesTTL
                           /\ IF parses
                                THEN Reply(k, NoError, r)
                                ELSE Reply(k, RawError, NoRecord)
           ELSE IF AfterLookup(k.op, hits # {}) = "return"
             THEN Reply(k, NoError, NoRecord)
           ELSE IF hits = {}
             THEN Proceed([ k EXCEPT !.pc = AfterLookup(k.op, FALSE) ])
           ELSE \E r \in hits :
                  Proceed([ k EXCEPT !.id = r.id,
                                     !.pc = AfterLookup(k.op, TRUE) ])
  /\ UNCHANGED << provider, records, dnsSide >>

\* updateExistingRecord of every provider but Hetzner: one call addressed
\* to the record found, carrying the desired value and TTL.
updateExistingRecord ==
  /\ pc = "dns"
  /\ req.pc = "update"
  /\ provider.name # "hetzner"
  /\ \E ok \in BOOLEAN :
       LET n == provider.name
           k == Logged(req, "update", ok)
       IN  IF ok
             THEN /\ records' =
                       { IF r.id = k.id
                           THEN [ r EXCEPT !.value = k.value, !.ttl = k.ttl,
                                    !.extra = AttributeAfterUpdate(n, r) ]
                           ELSE r : r \in records }
                  /\ Reply(k, NoError, NoRecord)
             ELSE /\ UNCHANGED records
                  /\ Reply(k, UpdateError(n, k.name), NoRecord)
  /\ UNCHANGED << provider, dnsSide >>

\* HetznerProvider.updateExistingRRSet, first call: ChangeRRSetTTL when the
\* TTL of the set differs from the desired one.
ChangeRRSetTTL ==
  /\ pc = "dns"
  /\ req.pc = "update"
  /\ provider.name = "hetzner"
  /\ \E r \in records : r.id = req.id /\ r.ttl # req.ttl
  /\ \E ok \in BOOLEAN :
       LET k == Logged(req, "ChangeRRSetTTL", ok)
       IN  IF ok
             THEN /\ records' =
                       { IF r.id = k.id THEN [ r EXCEPT !.ttl = k.ttl ] ELSE r
                           : r \in records }
                  /\ Proceed([ k EXCEPT !.pc = "SetRRSetRecords" ])
             ELSE /\ UNCHANGED records
                  /\ Reply(k, UpdateError("hetzner", k.name), NoRecord)
  /\ UNCHANGED << provider, dnsSide >>

\* HetznerProvider.updateExistingRRSet, the call it always makes:
\* SetRRSetRecords with one record of the desired value and no comment.
SetRRSetRecords ==
  /\ pc = "dns"
  /\ provider.name = "hetzner"
  /\ \/ req.pc = "SetRRSetRecords"
     \/ /\ req.pc = "update"
        /\ \A r \in records : r.id = req.id => r.ttl = req.ttl
  /\ \E ok \in BOOLEAN :
       LET k == Logged(req, "SetRRSetRecords", ok)
       IN  IF ok
             THEN /\ records' =
                       { IF r.id = k.id
                           THEN [ r EXCEPT !.value = k.value,
                                    !.extra = AttributeAfterUpdate("hetzner", r) ]
                           ELSE r : r \in records }
                  /\ Reply(k, NoError, NoRecord)
             ELSE /\ UNCHANGED records
                  /\ Reply(k, UpdateError("hetzner", k.name), NoRecord)
  /\ UNCHANGED << provider, dnsSide >>

\* createNewRecord / Records.New / createNewRRSet.
createNewRecord ==
  /\ pc = "dns"
  /\ req.pc = "create"
  /\ \E ok \in BOOLEAN :
       LET n == provider.name
           k == Logged(req, "create", ok)
       IN  IF ok
             THEN /\ records' = records \cup {Created(n, k)}
                  /\ Reply(k, NoError, NoRecord)
             ELSE /\ UNCHANGED records
                  /\ Reply(k, UpdateError(n, k.name), NoRecord)
  /\ UNCHANGED << provider, dnsSide >>

\* deleteRecordByLine / Records.Delete / deleteRecord / deleteRecordByID /
\* deleteRRSet: every provider wraps the error of the delete call.
deleteRecord ==
  /\ pc = "dns"
  /\ req.pc = "delete"
  /\ \E ok \in BOOLEAN :
       LET n == provider.name
           k == Logged(req, "delete", ok)
       IN  IF ok
             THEN /\ records' = { r \in records : r.id # k.id }
                  /\ Reply(k, NoError, NoRecord)
             ELSE /\ UNCHANGED records
                  /\ Reply(k, NewDNSProviderError(n, k.name), NoRecord)
  /\ UNCHANGED << provider, dnsSide >>

\* The records a zone may hold before the first call: at most one for each
\* type, with or without the extra attribute.
ZoneRecord(i, t, x) ==
  [ id |-> i, name |-> RecordName, type |-> t, value |-> PrimaryAddr,
    ttl |-> 300, extra |-> x ]

Zones ==
  { a \cup b :
      a \in {{}} \cup { {ZoneRecord(1, "A", x)} : x \in BOOLEAN },
      b \in {{}} \cup { {ZoneRecord(2, "AAAA", x)} : x \in BOOLEAN } }

\* A provider on its own: no daemon around it.  Only Cloudflare's
\* configuration has the proxied setting.
DNSInit ==
  /\ StoreIdle
  /\ Unclassified
  /\ provider \in
       { [ name |-> p.Name, proxied |-> x, zone |-> FALSE ] :
           p \in Providers, x \in BOOLEAN }
  /\ provider.proxied => provider.name = "cloudflare"
  /\ records \in Zones
  /\ req = ReqIdle
  /\ out = NoOut
  /\ dnsCalls = 0
  /\ file = AbsentFile
  /\ cfg = CHOOSE c \in Configs : Validate(c)
  /\ pc = "dns"
  /\ cancelled = FALSE
  /\ now = 0
  /\ env = "any"
  /\ faults = 0
  /\ boots = 0
  /\ leaked = {}
  /\ zone = [ l \in Locations(cfg.DNS) |-> "" ]
  /\ currentIP = ""
  /\ targetIP = ""
  /\ lastAppliedIP = ""
  /\ getLastErr = FALSE
  /\ failureCount = 0
  /\ idx = 0
  /\ errs = {}
  /\ probeOK = TRUE
  /\ clean = TRUE
  /\ trace = << >>
  /\ cnt = NoCount
  /\ failSeq = << >>
  /\ owed = {}
  /\ startView = AppliedFields(ZeroState)
  /\ storedSame = FALSE
  /\ outcome = "none"
  /\ decided = ""

DNSNext ==
  \/ ProviderCall
  \/ getZone
  \/ Lookup
  \/ updateExistingRecord
  \/ ChangeRRSetTTL
  \/ SetRRSetRecords
  \/ createNewRecord
  \/ deleteRecord

DNSSpec == DNSInit /\ [][DNSNext]_vars

\* ------------------------------------------------------- the errors package
\* An error is the sequence of the errors its Unwrap chain yields; each is
\* one of the package's types or an error of another type, and an HTTPError
\* carries its status code.
Errors ==
  [ type : {"HTTPError"}, StatusCode : {404, 408, 429, 499, 500, 503} ]
    \cup [ type : {"DNSProviderError", "IPCheckError", "StateError", "error"},
           StatusCode : {0} ]

\* errors.As(err, &target) for a target of type t: the first error of the
\* chain that has the type, the empty sequence when there is none.
As(e, t) ==
  LET at == { i \in 1..Len(e) : e[i].type = t }
  IN  IF at = {} THEN << >>
      ELSE << e[CHOOSE i \in at : \A j \in at : i <= j] >>

IsRetryableError(e) ==
  IF As(e, "HTTPError") # << >>
    THEN LET httpErr == As(e, "HTTPError")[1]
         IN  httpErr.StatusCode >= 500 \/ httpErr.StatusCode = 429
               \/ httpErr.StatusCode = 408
  ELSE IF As(e, "DNSProviderError") # << >> THEN TRUE
  ELSE IF As(e, "IPCheckError") # << >> THEN TRUE
  ELSE FALSE

\* NewHTTPError, NewDNSProviderError, NewIPCheckError, NewStateError,
\* fmt.Errorf: an error is made that wraps the error so far, or nil.
NewError ==
  /\ pc = "errors"
  /\ Len(wrapped) < MaxDepth
  /\ \E x \in Errors : wrapped' = << x >> \o wrapped
  /\ retryable' = << >>
  /\ UNCHANGED << dnsVars, appVars, storeVars, zone, localVars, histVars,
                  mutex, call, gor, tmp, calls, ret, decided >>

\* IsRetryableError(err) is called.
Classify ==
  /\ pc = "errors"
  /\ wrapped # << >>
  /\ retryable = << >>
  /\ retryable' = << IsRetryableError(wrapped) >>
  /\ UNCHANGED << wrapped, dnsVars, appVars, storeVars, zone, localVars,
                  histVars, mutex, call, gor, tmp, calls, ret, decided >>

ErrInit ==
  /\ StoreIdle
  /\ Unclassified
  /\ ProviderIdle
  /\ file = AbsentFile
  /\ cfg = CHOOSE c \in Configs : Validate(c)
  /\ pc = "errors"
  /\ cancelled = FALSE
  /\ now = 0
  /\ env = "any"
  /\ faults = 0
  /\ boots = 0
  /\ leaked = {}
  /\ zone = [ l \in Locations(cfg.DNS) |-> "" ]
  /\ currentIP = ""
  /\ targetIP = ""
  /\ lastAppliedIP = ""
  /\ getLastErr = FALSE
  /\ failureCount = 0
  /\ idx = 0
  /\ errs = {}
  /\ probeOK = TRUE
  /\ clean = TRUE
  /\ trace = << >>
  /\ cnt = NoCount
  /\ failSeq = << >>
  /\ owed = {}
  /\ startView = AppliedFields(ZeroState)
  /\ storedSame = FALSE
  /\ outcome = "none"
  /\ decided = ""

ErrSpec == ErrInit /\ [][NewError \/ Classify]_vars

\* ---------------------------------------------- providers by record name
\* Records in a dns: list of the runs below.
MaxRecords == 2

\* The entries a dns: list may hold: two names, two types, two providers.
DNSConfigs ==
  [ Name : {"a.example.com", "b.example.com"},
    Type : {"A", "AAAA"},
    Provider : {"cloudflare", "cpanel"},
    TTL : {300},
    HasProviderConfig : {TRUE} ]

\* The provider instances Run has validated so far, each named by the record
\* it was built from.
Validated == { trace[k].rec : k \in { j \in 1..Len(trace) : trace[j].op = "Validate" } }

\* Run: one pass of "for name, provider := range app.dnsProviders", in the
\* order the map yields: provider.Validate; an error returns from Run, and
\* after the last instance the loop of cycles starts.  Of a cycle these runs
\* hold updateDNSRecords only, entered with the target the cycle decided.
ValidateProvider ==
  /\ pc = "range dnsProviders"
  /\ \E n \in DOMAIN dnsProviders(cfg.DNS), ok \in Results :
       LET p == dnsProviders(cfg.DNS)[n]
           last == \A o \in DOMAIN dnsProviders(cfg.DNS) :
                     dnsProviders(cfg.DNS)[o] \in Validated \cup {p}
       IN /\ p \notin Validated
          /\ trace' = Append(trace, [ op |-> "Validate", rec |-> p, ok |-> ok ])
          /\ faults' = Charged(ok)
          /\ pc' = IF ~ok THEN "exited" ELSE IF last THEN "UpdateRecord" ELSE pc
          /\ idx' = IF ok /\ last THEN 1 ELSE idx
  /\ UNCHANGED << cfg, boots, cancelled, now, env, storeVars, zone, currentIP,
                  targetIP, lastAppliedIP, getLastErr, failureCount, errs,
                  probeOK, clean, cnt, failSeq, owed, startView, storedSame,
                  outcome >>
  /\ UNCHANGED ioVars

\* The state NewApplication leaves for a valid configuration with any dns:
\* list of up to MaxRecords entries, and a target to reconcile.
ProvidersInit ==
  /\ StoreIdle
  /\ Unclassified
  /\ ProviderIdle
  /\ file = AbsentFile
  /\ \E c \in Configs, n \in 1..MaxRecords :
       /\ Validate(c)
       /\ c.FailoverRetries = 1
       /\ \E dns \in [1..n -> DNSConfigs] : cfg = [ c EXCEPT !.DNS = dns ]
  /\ pc = "range dnsProviders"
  /\ cancelled = FALSE
  /\ now = 0
  /\ env = "any"
  /\ faults = 0
  /\ boots = 0
  /\ leaked = {}
  /\ zone = [ l \in Locations(cfg.DNS) |-> "" ]
  /\ currentIP = DetectedAddr
  /\ targetIP \in {cfg.PrimaryIP, cfg.SecondaryIP}
  /\ lastAppliedIP = ""
  /\ getLastErr = FALSE
  /\ failureCount = 0
  /\ idx = 0
  /\ errs = {}
  /\ probeOK = TRUE
  /\ clean = TRUE
  /\ trace = << >>
  /\ cnt = NoCount
  /\ failSeq = << >>
  /\ owed = {}
  /\ startView = AppliedFields(ZeroState)
  /\ storedSame = FALSE
  /\ outcome = "running"
  /\ decided = ""

ProvidersSpec == ProvidersInit /\ [][ValidateProvider \/ UpdateRecord]_vars

\* ------------------------------------------------------------- properties
\* Positions of the UpdateRecord calls made for record i in this cycle.
UpdateEvents(i) ==
  { k \in 1..Len(trace) : trace[k].op = "UpdateRecord" /\ trace[k].rec = i }

\* Records whose UpdateRecord call of this cycle returned an error.
FailedRecords ==
  { i \in 1..NumRecords : \E k \in UpdateEvents(i) : ~trace[k].ok }

\* checkAndUpdateIP has returned and no later cycle has begun.
CycleEnded == outcome \notin {"none", "running"}

\* updateDNSRecords has gone through its loop.
LoopDone == idx > NumRecords

\* The loop is over with some records updated and some failed.
PartialFailure == LoopDone /\ errs # {} /\ errs # 1..NumRecords

\* The loop is over and every record failed.
TotalFailure == LoopDone /\ NumRecords > 0 /\ errs = 1..NumRecords

\* Every provider-side record holds the address ip.
AllRecordsHold(ip) == \A l \in DOMAIN zone : zone[l] = ip

\* C1 as stated: after a failed probe the persisted counter is one more than
\* it was, and the decision is the secondary address exactly when that value
\* has reached FailoverRetries.
C1_CounterPersistedAndCompared ==
  cnt.op = "inc" =>
    /\ cnt.after = cnt.before + 1
    /\ targetIP = IF cnt.before + 1 >= cfg.FailoverRetries
                    THEN cfg.SecondaryIP ELSE cfg.PrimaryIP

\* C1 amended: after a failed probe the counter that was read (0 when the
\* read failed) is incremented by one, the decision is the secondary address
\* exactly when the incremented value has reached FailoverRetries, and the
\* incremented value is the persisted one when the write succeeded.
C1_CounterIncrementedAndCompared ==
  cnt.op = "inc" =>
    /\ cnt.read = (IF cnt.readOK THEN cnt.before ELSE 0)
    /\ failureCount = cnt.read + 1
    /\ cnt.wrote => cnt.after = failureCount
    /\ targetIP = IF failureCount >= cfg.FailoverRetries
                    THEN cfg.SecondaryIP ELSE cfg.PrimaryIP

\* A failed probe whose counter 1 was read, incremented and persisted, with
\* the threshold reached.
C1_Witness ==
  /\ cnt.op = "inc"
  /\ cnt.readOK
  /\ cnt.wrote
  /\ cnt.before = 1
  /\ cnt.after = 2
  /\ cfg.FailoverRetries = 2
  /\ targetIP = SecondaryAddr

C4_EventuallyConverges ==
  /\ [](env = "up" => <>[]AllRecordsHold(cfg.PrimaryIP))
  /\ [](env = "down" => <>[]AllRecordsHold(cfg.SecondaryIP))

\* C5 as stated: a cycle in which some records were updated and some failed
\* still persists the target as lastAppliedIP.
C5_PartialFailurePersistsTarget ==
  (CycleEnded /\ PartialFailure) => View(file).LastAppliedIP = targetIP

\* C5 amended: a cycle in which some records were updated and some failed
\* returns the aggregated error without invoking SetLastAppliedIP, and the
\* stored lastAppliedIP, lastChangeTime and updateCount stay as they were,
\* lastAppliedIP being other than the target.
C5_PartialFailureKeepsState ==
  PartialFailure =>
    /\ outcome = "update_failed"
    /\ pc # "SetLastAppliedIP"
    /\ \A k \in 1..Len(trace) : trace[k].op # "SetLastAppliedIP"
    /\ AppliedFields(View(file)) = startView
    /\ View(file).LastAppliedIP # targetIP

\* A cycle that updated the first record, failed on the second, and ended
\* with the earlier address still stored.
C5_Witness ==
  /\ CycleEnded
  /\ PartialFailure
  /\ errs = {2}
  /\ zone[RecordLocation(cfg.DNS, 1)] = targetIP
  /\ View(file).LastAppliedIP = PrimaryAddr
  /\ targetIP = SecondaryAddr

\* C6: a cycle in which UpdateRecord failed for every record leaves the
\* stored lastAppliedIP, lastChangeTime and updateCount as they were when
\* the cycle began, and a later cycle deciding a target whose last update
\* failed for every record does not skip the update.
C6_TotalFailureKeepsState ==
  /\ TotalFailure => AppliedFields(View(file)) = startView
  /\ outcome = "unchanged" => targetIP \notin owed

\* C7: on the update path UpdateRecord is attempted exactly once, in order,
\* for every configured record whether or not earlier ones failed; the
\* aggregated error holds exactly the records that failed and is returned
\* when there is any; SetLastAppliedIP is invoked only after every record
\* has been attempted.
C7_EveryRecordAttemptedOnce ==
  /\ \A i \in 1..NumRecords :
       Cardinality(UpdateEvents(i)) = IF i < idx THEN 1 ELSE 0
  /\ errs = FailedRecords
  /\ (LoopDone /\ errs # {}) => outcome = "update_failed"
  /\ \A k \in 1..Len(trace) :
       trace[k].op = "SetLastAppliedIP" =>
         \A i \in 1..NumRecords : \E j \in UpdateEvents(i) : j < k

\* The first record failed and the second was still attempted, with
\* success; the cycle returned the aggregated error.
C7_Witness ==
  /\ LoopDone
  /\ errs = {1}
  /\ \E k \in UpdateEvents(2) : trace[k].ok
  /\ outcome = "update_failed"

\* C8 as stated: when the stored lastAppliedIP equals the decided target, no
\* provider operation is invoked and the stored lastAppliedIP,
\* lastChangeTime and updateCount are not modified.
C8_StoredTargetSkipsUpdate ==
  storedSame =>
    /\ trace = << >>
    /\ AppliedFields(View(file)) = startView

\* C8 amended: when GetLastAppliedIP returned, without error, an address
\* equal to the decided target, the cycle ends with no provider operation
\* invoked and the stored lastAppliedIP, lastChangeTime and updateCount not
\* modified.
C8_ReadTargetSkipsUpdate ==
  (targetIP # "" /\ ~getLastErr /\ lastAppliedIP = targetIP) =>
    /\ trace = << >>
    /\ idx = 0
    /\ outcome = "unchanged"
    /\ AppliedFields(View(file)) = startView

\* A second cycle deciding the address the first one applied.
C8_Witness ==
  /\ outcome = "unchanged"
  /\ now >= 2
  /\ storedSame
  /\ lastAppliedIP = targetIP
  /\ View(file).UpdateCount = 1
  /\ AllRecordsHold(targetIP)

\* C9: whatever the probe outcome, the counter, the threshold and the
\* results of the state-store calls, determineTargetIP returns the
\* configured primary or the configured secondary address, never the empty
\* string.
C9_DecisionIsConfiguredAddress ==
  cnt.op \in {"reset", "inc"} =>
    /\ targetIP \in {cfg.PrimaryIP, cfg.SecondaryIP}
    /\ targetIP # ""

\* A failed probe whose counter write failed, deciding the secondary
\* address.
C9_Witness ==
  /\ cnt.op = "inc"
  /\ ~cnt.wrote
  /\ ~probeOK
  /\ targetIP = SecondaryAddr

\* C10: a configuration with FailoverRetries = 0 (and both addresses set)
\* passes validation, and with FailoverRetries = 0 a failed probe yields
\* the secondary address in the same cycle whatever the counter was.
C10_ZeroRetriesFailsOverAtOnce ==
  cfg.FailoverRetries = 0 =>
    /\ (cfg.PrimaryIP # "" /\ cfg.SecondaryIP # "") => pc # "rejected"
    /\ cnt.op = "inc" => targetIP = cfg.SecondaryIP

\* The first failed probe, at counter 0, with FailoverRetries = 0.
C10_Witness ==
  /\ cfg.FailoverRetries = 0
  /\ cnt.op = "inc"
  /\ cnt.readOK
  /\ cnt.read = 0
  /\ now = 1
  /\ targetIP = SecondaryAddr

\* C11: the failure counter survives a restart.  Over consecutive failed
\* probes that began at counter 0, in whichever process each was made, the
\* k-th one persists counter k and decides the secondary address exactly
\* when k has reached FailoverRetries.
C11_CounterSurvivesRestart ==
  \A i \in 1..Len(failSeq) :
    /\ failSeq[i].count = i
    /\ View(file).PrimaryFailureCount = failSeq[Len(failSeq)].count
    /\ failSeq[i].decision = IF i >= cfg.FailoverRetries
                               THEN cfg.SecondaryIP ELSE cfg.PrimaryIP

\* Two failed probes decided the primary address, the process was started
\* again, and the first failed probe of the new process read counter 2,
\* persisted 3 and decided the secondary address.
C11_Witness ==
  /\ cfg.FailoverRetries = 3
  /\ Len(failSeq) = 3
  /\ failSeq[2].boot = 0
  /\ failSeq[2].decision = PrimaryAddr
  /\ failSeq[3].boot = 1
  /\ failSeq[3].decision = SecondaryAddr
  /\ View(file).PrimaryFailureCount = 3

\* C12: a cycle whose IP detection failed increments the IP-check error
\* counter once and is over at once: that step writes nothing to the state
\* file, starts no write, changes no provider record, and no probe, counter
\* call or provider call is made before the next cycle begins.
C12_DetectionFailureSkipsCycle ==
  /\ [][(BeginCheck /\ currentIP' = "") =>
          /\ pc' = "select"
          /\ trace' = << IPCheckError >>
          /\ file' = file
          /\ leaked' = leaked
          /\ zone' = zone]_vars
  /\ [](outcome = "ip_check_failed" =>
          /\ pc \in {"select", "returned"}
          /\ trace = << IPCheckError >>
          /\ targetIP = ""
          /\ cnt = NoCount
          /\ idx = 0)

\* A second cycle whose detection failed, with the state and the records
\* of the first cycle in place.
C12_Witness ==
  /\ outcome = "ip_check_failed"
  /\ now = 2
  /\ pc = "select"
  /\ View(file).LastAppliedIP = PrimaryAddr
  /\ View(file).LastCheckTime = 1
  /\ AllRecordsHold(PrimaryAddr)

\* C13: Run returns only when its context is cancelled; a process that
\* ended otherwise ended at startup, before any cycle; a cycle that
\* returned an error leaves the loop waiting for the next tick.
C13_RunReturnsOnlyOnCancel ==
  /\ pc = "returned" => cancelled
  /\ pc \in {"rejected", "exited"} => outcome = "none"
  /\ (outcome \in FailedOutcomes /\ ~cancelled) => pc = "select"

\* A cycle running after a cycle in which every update failed, in the same
\* process and with the context not cancelled.
C13_Witness ==
  /\ outcome = "running"
  /\ owed # {}
  /\ boots = 0
  /\ ~cancelled
  /\ now >= 2

\* C14: when a cycle begins, every state-file write started by an earlier
\* cycle has completed.
C14_NoWriteInFlightAtCycleStart ==
  (pc = "SetLastCheckInfo" /\ outcome = "running") => leaked = {}

\* C15: whenever SetLastAppliedIP(a) has returned nil, the state file reads
\* back a as the last applied IP, and an update count exactly one more than
\* it read before the call.
C15_SetThenGetReturnsValue ==
  (ret.op = "SetLastAppliedIP" /\ ret.err = "nil")
    => /\ ret.after.LastAppliedIP = ret.ip
       /\ ret.after.UpdateCount = ret.before + 1

\* C16: on a state file that does not exist, every read operation returns
\* the zero value and no error.
C16_AbsentFileReadsAsZero ==
  (ret.op \in Readers /\ ret.ld = "notfound")
    => /\ ret.err = "nil"
       /\ ret.val = ZeroState

\* C17: on a state file that cannot be parsed, every write operation whose
\* context stays live returns nil and leaves the document of an empty state
\* with the written value in it.
C17_CorruptFileIsOverwritten ==
  (ret.op \in Writers /\ ret.ld = "corrupt" /\ ~ret.done)
    => /\ ret.err = "nil"
       /\ ret.after = Changed(ret.op, ZeroState, ret.ip, ret.n, now + 1)

\* C18: on a state file that cannot be parsed, every read operation returns
\* an error, one that IsNotFoundError does not take for a missing file, and
\* so not what the operation returns when the file was never created.
C18_CorruptReadIsAnErrorNotNotFound ==
  (ret.op \in Readers /\ ret.ld = "corrupt")
    => /\ ret.err # "nil"
       /\ ~IsNotFoundError(ret.err)
       /\ ret.err # ReadResult(ret.op, loadState(AbsentFile, FALSE)).err

C18_Witness ==
  /\ ret.op \in Readers
  /\ ret.ld = "corrupt"
  /\ ret.err \in {"state", "corrupt"}

\* C19: the state file never holds part of a document or a mix of two
\* documents, whatever step the process is at.
C19_FileNeverTorn == file.status # "torn"

\* C20: while a goroutine of saveState has the temporary file open or is
\* about to rename it, no goroutine of another operation is running: every
\* running goroutine an operation waits for belongs to the operation that
\* writes.
C20_WriteExcludesOtherAccess ==
  \A g \in Running : \A h \in Running \ {g} :
    (/\ g.kind = "write"
     /\ g.step \in {"WriteFile.write", "Rename"}
     /\ h.owner \in Callers)
      => h.owner = g.owner

\* C21: while a goroutine of saveState goes on after its operation returned
\* on a cancelled context, no step, of that goroutine or of the write that
\* started after it, leaves the state file with part of a document or a mix
\* of two.
C21_CancelledWriteNeverTearsFile ==
  [][(\E g \in gor : g.kind = "write" /\ g.owner = "none")
       => file'.status # "torn"]_vars

\* C27: a cycle whose detection succeeded goes to SetLastCheckInfo first;
\* the probe and the decision are reached only from SetLastCheckInfo, and
\* are reached from it whether it failed or not; when it did not fail the
\* state file holds the detected address and the time of the check.
C27_CheckInfoSavedBeforeDecision ==
  /\ [][(BeginCheck /\ currentIP' # "") => pc' = "SetLastCheckInfo"]_vars
  /\ [][(pc' = "checkIPReachability" /\ pc # pc')
          => pc \in {"SetLastCheckInfo", "SetLastCheckInfo.locked"}]_vars
  /\ [][(pc \in {"SetLastCheckInfo", "SetLastCheckInfo.locked"})
          => (pc' \in {pc, "SetLastCheckInfo.locked",
                       "checkIPReachability"})]_vars
  /\ [][(pc = "SetLastCheckInfo.locked" /\ pc' # pc /\ clean')
          => /\ View(file').LastCheckIP = DetectedAddr
             /\ View(file').LastCheckTime = now]_vars

C27_Witness ==
  /\ pc = "checkIPReachability"
  /\ currentIP = DetectedAddr
  /\ ~clean
  /\ View(file).LastCheckIP # DetectedAddr

\* C30: the first cycle begins only after the providers' Validate; a
\* failed Validate makes Run return, and from then on no cycle begins:
\* nothing is detected, probed or decided, no state-store write is started
\* and no record is changed.
C30_ValidateFailureRunsNoCycle ==
  /\ [][BeginCheck => pc \in {"initial", "select"}]_vars
  /\ [][(pc' = "initial" /\ pc' # pc) => pc = "Validate"]_vars
  /\ [][(pc = "Validate" /\ pc' # pc /\ faults' # faults)
          => (pc' = "exited" /\ file' = file /\ zone' = zone)]_vars
  /\ [][pc = "exited"
          => (pc' = "exited" /\ file' = file /\ zone' = zone)]_vars
  /\ [](pc = "exited"
          => /\ outcome = "none"
             /\ currentIP = ""
             /\ targetIP = ""
             /\ trace = << >>
             /\ cnt = NoCount
             /\ leaked = {})

C30_Witness ==
  /\ pc = "exited"
  /\ boots > 0
  /\ file.status = "ok"

\* What the HealthCheck that has just returned gave its caller.
HealthCheckReturned == HealthCheck(ret.op # "GetCurrentIP", ret.err)

\* C28: HealthCheck returns nil exactly when GetCurrentIP succeeded and
\* GetLastAppliedIP returned nil or the error of a missing state file; it
\* returns an error when the file it read cannot be parsed; and no step of
\* it changes the state file or starts a write.
C28_HealthCheckNilIffReadable ==
  /\ [](ret.by = "health"
          => /\ (HealthCheckReturned = "nil")
                  <=> (ret.op = "GetLastAppliedIP" /\ ~ret.done
                       /\ ret.ld \in {"nil", "notfound"})
             /\ ret.ld = "corrupt" => HealthCheckReturned # "nil")
  /\ [](\A g \in gor : g.owner = "health" => g.kind = "read")
  /\ [][(call'["health"] # call["health"]
          \/ (ret' # ret /\ ret'.by = "health"))
          => (file' = file /\ tmp' = tmp)]_vars

C28_Witness ==
  /\ ret.by = "health"
  /\ ret.ld = "corrupt"
  /\ HealthCheckReturned = "state store check failed"

\* ---- provider calls
\* Every API call of the last provider call succeeded.
AllOK == \A i \in 1..Len(out.api) : out.api[i].ok

\* The last provider call made the API call c.
Made(c) == \E i \in 1..Len(out.api) : out.api[i].call = c

\* The records of a zone that have the requested name and type.
Holding(zn, name, type) == { r \in zn : r.name = name /\ r.type = type }

\* C22: when UpdateRecord is called a second time with the record the
\* previous UpdateRecord was called with and succeeded for, and every API
\* call succeeds, the call returns nil, it makes no create call, and the
\* zone holds exactly one record of that name and type, with the desired
\* value and TTL.
C22_RepeatedUpdateKeepsOneRecord ==
  (out.op = "UpdateRecord" /\ out.again /\ AllOK)
    => /\ out.err = NoError
       /\ ~Made("create")
       /\ Cardinality(Holding(records, out.name, out.type)) = 1
       /\ Cardinality(Holding(out.before, out.name, out.type)) = 1
       /\ \A r \in Holding(records, out.name, out.type) :
            r.value = out.value /\ r.ttl = out.ttl
       /\ Cardinality(records) = Cardinality(out.before)

C22_Witness ==
  /\ out.op = "UpdateRecord"
  /\ out.again
  /\ out.err = NoError
  /\ Cardinality(records) = 2
  /\ \E r \in Holding(records, out.name, out.type) :
       r.value = SecondaryAddr /\ r.ttl = 60

\* C23: DeleteRecord for a name and a type of which the zone holds no
\* record, its lookup succeeding, returns nil, makes no delete call and
\* leaves the zone as it was.
C23_DeleteOfAbsentRecordIsNil ==
  ( /\ out.op = "DeleteRecord"
    /\ out.type \in RecordTypes
    /\ Holding(out.before, out.name, out.type) = {}
    /\ AllOK )
    => /\ out.err = NoError
       /\ ~Made("delete")
       /\ records = out.before

C23_Witness ==
  /\ out.op = "DeleteRecord"
  /\ out.type = "A"
  /\ out.before # {}
  /\ Holding(out.before, out.name, out.type) = {}
  /\ Made("list")
  /\ out.err = NoError

\* C24: GetRecord and DeleteRecord called with the empty record type return
\* an error, return no record, make no delete call and leave the zone as it
\* was, whichever the provider.
C24_EmptyTypeIsRejected ==
  (out.op \in {"GetRecord", "DeleteRecord"} /\ out.type = "")
    => /\ out.err # NoError
       /\ out.rec = NoRecord
       /\ ~Made("delete")
       /\ records = out.before

\* C25: an update of the record UpdateRecord found changes that record's
\* value and TTL and nothing else: its extra attribute, its name and its
\* type are what they were, and so is every other record.
C25_UpdateChangesOnlyValueAndTTL ==
  (out.op = "UpdateRecord" /\ out.id # 0)
    => \A r \in out.before :
         \E s \in records :
           /\ s.id = r.id
           /\ s.name = r.name
           /\ s.type = r.type
           /\ s.extra = r.extra
           /\ r.id # out.id => s = r

\* C26: every error UpdateRecord, GetRecord and DeleteRecord return is a
\* DNSProviderError carrying the provider's name and the requested record
\* name, whichever call failed.
C26_EveryErrorIsDNSProviderError ==
  out.err # NoError => out.err = NewDNSProviderError(provider.name, out.name)

\* The API calls that change a record a lookup found.
UpdateCalls == {"update", "ChangeRRSetTTL", "SetRRSetRecords"}

\* The API calls of the last provider call, the fetch of the zone apart.
RecordCalls == SelectSeq(out.api, LAMBDA c : c.call # "Zone.Get")

\* C29: an UpdateRecord call that reaches its lookup makes one lookup and,
\* the lookup succeeding, exactly one more call: an update when the lookup
\* matched, a create when it did not; only the last call made can have
\* failed, and then the call returns an error.
C29_OneLookupThenOneMutation ==
  (out.op = "UpdateRecord" /\ RecordCalls # << >>)
    => /\ RecordCalls[1].call = "list"
       /\ Len(RecordCalls) = IF RecordCalls[1].ok THEN 2 ELSE 1
       /\ Len(RecordCalls) = 2
            => IF Holding(out.before, out.name, out.type) # {}
                 THEN RecordCalls[2].call \in UpdateCalls
                 ELSE RecordCalls[2].call = "create"
       /\ \A i \in 1..(Len(out.api) - 1) : out.api[i].ok
       /\ (out.err # NoError) <=> ~AllOK

\* ---- the state store under the loop, continued
\* C31: between determineTargetIP's read of the failure counter and its
\* write of the counter plus one, no write of another state-store operation
\* reaches the state file.
C31_CounterUpdateIsOneCriticalSection ==
  [][(pc = "SetPrimaryFailureCount" /\ pc' = pc /\ leaked' # leaked)
       => file' = file]_vars

\* C32: whatever the state-store operations do, the updateCount of a
\* readable state file is never smaller after a step than before it.
C32_UpdateCountNeverDecreases ==
  [][(file.status = "ok" /\ file'.status = "ok")
       => file'.doc.UpdateCount >= file.doc.UpdateCount]_vars

\* ---- errors
\* C33: IsRetryableError answers by the error it is handed alone: for an
\* HTTPError true exactly for a status of 500 and above, 429 and 408; true
\* for a DNSProviderError and for an IPCheckError, whatever they wrap; false
\* for every other error.
C33_RetryableByOutermostError ==
  retryable # << >>
    => (retryable[1] <=>
          \/ /\ wrapped[1].type = "HTTPError"
             /\ \/ wrapped[1].StatusCode >= 500
                \/ wrapped[1].StatusCode \in {429, 408}
          \/ wrapped[1].type \in {"DNSProviderError", "IPCheckError"})

\* ---- the loop, continued
\* C34: when a cycle has ended and the state file holds a non-empty
\* lastAppliedIP, every configured record holds that address at its
\* provider.
C34_RecordsHoldPersistedAddress ==
  (CycleEnded /\ View(file).LastAppliedIP # "")
    => AllRecordsHold(View(file).LastAppliedIP)

\* C35: when the last failed probe led to the secondary address and no
\* probe has succeeded since, the next failed probe leads to the secondary
\* address again.
C35_SecondaryDecisionSticks ==
  [][(pc = "SetPrimaryFailureCount" /\ pc' # pc /\ decided = cfg.SecondaryIP)
       => targetIP' = cfg.SecondaryIP]_vars

\* C36: every configured record is reconciled through a provider instance
\* built for that record's provider, and once Run has validated its
\* instances every configured record's provider has an instance among them.
C36_RecordUsesItsOwnProvider ==
  /\ \A i \in 1..NumRecords :
       UpdateEvents(i) # {}
         => cfg.DNS[dnsProviders(cfg.DNS)[cfg.DNS[i].Name]].Provider
              = cfg.DNS[i].Provider
  /\ pc \in {"UpdateRecord", "select", "SetLastAppliedIP"}
       => \A i \in 1..NumRecords :
            \E p \in Validated : cfg.DNS[p].Provider = cfg.DNS[i].Provider

\* ---- state store, failed writes and frames
\* C37: once a write operation has returned an error, no step of the
\* goroutine its saveState started changes the state file.
C37_FailedWriteLeavesFileAlone ==
  [][\A g \in gor :
       (/\ g.kind = "write"
        /\ g.owner = "none"
        /\ WriteFileWrite(g) \/ Rename(g))
         => file' = file]_vars

\* The fields of the document a setter assigns.
OwnFields(op) ==
  IF op = "SetLastAppliedIP"
    THEN {"LastAppliedIP", "LastChangeTime", "UpdateCount"}
  ELSE IF op = "SetLastChangeTime" THEN {"LastChangeTime"}
  ELSE IF op = "SetLastCheckInfo" THEN {"LastCheckIP", "LastCheckTime"}
  ELSE {"PrimaryFailureCount"}

\* C38: a step that takes the state file from one readable document to
\* another changes the fields of one setter only, and leaves every other
\* field as it was.
C38_SetterChangesOnlyItsFields ==
  [][(file.status = "ok" /\ file'.status = "ok")
       => \E op \in Writers :
            \A f \in DOMAIN file.doc \ OwnFields(op) :
              file'.doc[f] = file.doc[f]]_vars

====
